---- MODULE Spec2Model ----
(***************************************************************************)
(* Attribute Extraction Pipeline: the document truncator, the response     *)
(* parser, the model parameter adapters, the OCR table reconciler, the     *)
(* multimodal content packager and the two extraction handlers, each       *)
(* translated from its Python source.                                      *)
(*                                                                         *)
(* Every component has its own specification (SpecTrunc, SpecParser, ...). *)
(* The variables of the components a specification does not run stay at    *)
(* their idle values.                                                      *)
(***************************************************************************)
EXTENDS Integers, Sequences, FiniteSets, TLC

VARIABLES
    \* truncate_document (extract_attributes_llm_image/utils.py)
    document,            \* the document, a string (sequence of characters)
    token_count_total,   \* estimate of prompt + document, given by the caller
    num_token_prompt,    \* estimate of the prompt alone, given by the caller
    max_token_model,     \* the model's budget
    cpt,                 \* characters per token of the tokenizer in use
    tpc,                 \* position in truncate_document
    cuts,                \* number of candidates built so far
    truncated_doc,       \* the current candidate / the returned string
    \* parse_json_string (extract_attributes_llm_image/model/parser.py)
    text,                \* the model's answer, a sequence of lexemes
    source,              \* the value the answer was serialized from, if any
    ppc,                 \* position: "call", "returned" or "raised"
    result,              \* the value parse_json_string returned
    \* compile_tables (run_textract/utils.py)
    tables,              \* document.tables, the fragments in document order
    ti,                  \* number of fragments processed
    all_tables,          \* the dict of logical tables, in insertion order
    last_title,
    last_valid_table_columns,
    cpc,                 \* position: "loop" or "returned"
    \* the extraction handlers
    handler,             \* "text" (extract_attributes) or "image" (extract_attributes_llm_image)
    GENERATOR_CONFIG,    \* the module-level dict
    hpc,                 \* the statement the handler is about to run
    body,                \* the request being served
    llm_answer,          \* the text the model answers this request with
    model_params,        \* the adapted parameters (a local of the handler)
    attributes_str,      \* the attributes text (a local of the handler)
    error,               \* the exception that left the handler
    served,              \* number of requests received
    \* create_human_message_with_imgs (extract_attributes_llm/helpers.py)
    file,                \* the file argument
    max_pages,
    prompt_text,         \* the text argument
    mpc,                 \* position: "call", "returned" or "raised"
    message,             \* the message returned, or the exception raised
    \* load_prompt_template (extract_attributes/prompt.py)
    num_few_shots,
    instructions,
    prompt,              \* the template text built so far
    input_variables,
    li,                  \* the loop index i
    lpc,                 \* position: "declare", "few_shots", "instructions", "returned"
    \* result persistence (the handlers from the model's response on)
    file_key,            \* body["file_name"] / body["file_key"]
    response,            \* the text the model answered
    response_json,
    stored,              \* the arguments of put_object
    returned,            \* the handler's return value
    spc,                 \* position: "Parsing", "Dumping", "Stored", "Done", "Failed"
    \* the text handler from the truncated document on
    prompt_variables,    \* the values handed to the prompt template
    \* document ingestion (run_textract.py, read_office.py) against one bucket
    use_table,           \* the deployment's table-processing toggle
    USE_TABLE,           \* os.environ["USE_TABLE"]
    objects,             \* the bucket: a set of [key, body] objects
    stage,               \* "ocr" or "office": the handler serving the request
    file_name,           \* body["file_name"]
    doc_text,            \* the text read or extracted
    features,            \* the Textract features requested
    csv_tables,          \* the table keys returned
    listed,              \* list_objects_v2 was called
    skipped,             \* extraction was skipped for a processed file
    ipc,                 \* position: "idle", "looked", "cached", "returned", "raised"
    ingests,             \* number of requests received
    \* the three extractions of the <json>...</json> span of a raw answer
    raw_answer,          \* the raw model answer
    parser_span,         \* the span parse_json_string selects
    summary_span,        \* the span the summary prompt builder selects
    front_span,          \* the span the front end selects
    \* the status polling of a workflow execution
    poller,              \* "front" (invoke_step_function) or "demo" (run_tabulate_api)
    execution_status,    \* the status of the execution at the workflow service
    output_raw,          \* the raw answer in the execution's output
    status,              \* response["status"] of the last describe_execution
    qpc                  \* position: "sleep", "check", "done", "raised"

truncVars == <<document, token_count_total, num_token_prompt, max_token_model,
               cpt, tpc, cuts, truncated_doc>>

parserVars == <<text, source, ppc, result>>

tableVars == <<tables, ti, all_tables, last_title, last_valid_table_columns, cpc>>

handlerVars == <<handler, GENERATOR_CONFIG, hpc, body, llm_answer, model_params,
                 attributes_str, error, served>>

packVars == <<file, max_pages, prompt_text, mpc, message>>

promptVars == <<num_few_shots, instructions, prompt, input_variables, li, lpc>>

persistVars == <<file_key, response, response_json, stored, returned, spc>>

supplyVars == <<prompt_variables>>

ingestVars == <<use_table, USE_TABLE, objects, stage, file_name, doc_text, features,
                csv_tables, listed, skipped, ipc, ingests>>

spanVars == <<raw_answer, parser_span, summary_span, front_span>>

pollVars == <<poller, execution_status, output_raw, status, qpc>>

vars == <<truncVars, parserVars, tableVars, handlerVars, packVars, promptVars, persistVars,
          supplyVars, ingestVars,
    spanVars, pollVars>>

\* the variables each component leaves alone
notTrunc == <<parserVars, tableVars, handlerVars, packVars, promptVars, persistVars,
    supplyVars, ingestVars,
    spanVars, pollVars>>
notParser == <<truncVars, tableVars, handlerVars, packVars, promptVars, persistVars,
    supplyVars, ingestVars,
    spanVars, pollVars>>
notTables == <<truncVars, parserVars, handlerVars, packVars, promptVars, persistVars,
    supplyVars, ingestVars,
    spanVars, pollVars>>
notHandler == <<truncVars, parserVars, tableVars, packVars, promptVars, persistVars,
    supplyVars, ingestVars,
    spanVars, pollVars>>
notPack == <<truncVars, parserVars, tableVars, handlerVars, promptVars, persistVars,
    supplyVars, ingestVars,
    spanVars, pollVars>>
notPrompt == <<truncVars, parserVars, tableVars, handlerVars, packVars, persistVars,
    supplyVars, ingestVars,
    spanVars, pollVars>>
notPersist == <<truncVars, parserVars, tableVars, handlerVars, packVars, promptVars,
    supplyVars, ingestVars,
    spanVars, pollVars>>
notIngest == <<truncVars, parserVars, tableVars, handlerVars, packVars, promptVars,
    persistVars, supplyVars,
    spanVars, pollVars>>
notSpan == <<truncVars, parserVars, tableVars, handlerVars, packVars, promptVars,
    persistVars, supplyVars, ingestVars, pollVars>>
notPoll == <<truncVars, parserVars, tableVars, handlerVars, packVars, promptVars,
    persistVars, supplyVars, ingestVars, spanVars>>
notTextHandler == <<truncVars, parserVars, tableVars, packVars, promptVars, persistVars, ingestVars,
    spanVars, pollVars>>

(***************************************************************************)
(* Bounds of the model.                                                    *)
(***************************************************************************)
MaxDocLen == 5
MaxTokenCount == 7
MaxDepth == 2
MaxFreeLen == 3
MaxFragments == 3
MaxRequests == 2
MaxPdfPages == 3
MaxPages == 3
MaxFewShots == 3
MaxRuns == 2
MaxDirs == 2
MaxIngests == 2
MaxAnswerLen == 4

(***************************************************************************)
(* Python helpers: slices, str.split(" "), " ".join.                        *)
(***************************************************************************)
Min(a, b) == IF a < b THEN a ELSE b
Max(a, b) == IF a > b THEN a ELSE b

\* Python's normalisation of a slice bound n for a list of length len
PyBound(n, len) == IF n < 0 THEN Max(len + n, 0) ELSE Min(n, len)

\* s[:n]
PySliceTo(s, n) == SubSeq(s, 1, PyBound(n, Len(s)))

\* s[n:]
PySliceFrom(s, n) == SubSeq(s, PyBound(n, Len(s)) + 1, Len(s))

FirstSpace(s) == CHOOSE j \in 1..Len(s) : s[j] = " " /\ \A h \in 1..(j-1) : s[h] /= " "

RECURSIVE Split(_)
\* s.split(" "): a list of the (possibly empty) words between single spaces
Split(s) ==
    IF \E j \in 1..Len(s) : s[j] = " "
    THEN <<SubSeq(s, 1, FirstSpace(s) - 1)>> \o Split(SubSeq(s, FirstSpace(s) + 1, Len(s)))
    ELSE <<s>>

RECURSIVE Join(_)
\* " ".join(words)
Join(words) ==
    IF words = <<>> THEN <<>>
    ELSE IF Len(words) = 1 THEN words[1]
    ELSE words[1] \o <<" ">> \o Join(Tail(words))

(***************************************************************************)
(* Token Budget Estimator.  token_count_tokenizer delegates to the         *)
(* tokenizer of the griptape library, which counts ceil(len / characters   *)
(* per token); the characters per token are a parameter of the model.      *)
(***************************************************************************)
token_count_tokenizer(s, c) == (Len(s) + c - 1) \div c

(***************************************************************************)
(* Document Truncator.                                                     *)
(***************************************************************************)
MARKER == <<"\n", ".", ".", ".", "\n">>

\* The multipliers list built by `while start < end: ... start += step` in
\* IEEE doubles: 41 values 1.0, 1.1, ..., 4.8, 4.8999999999999995,
\* 4.999999999999999 (the accumulated 0.1 steps stay below 5.0 after 40 steps).
NumMultipliers == 41

\* int(split_parameter * multipliers[j]), j = 1..41, for 0 <= sp < 200: the
\* exact product floor(sp * (9 + j) / 10) except where the double is below
\* the decimal (j = 41 always, j = 40 on multiples of 10).
CutWords(sp, j) ==
    IF sp = 0 THEN 0
    ELSE IF j = 41 THEN 5 * sp - 1
    ELSE IF j = 40 /\ sp % 10 = 0 THEN (49 * sp) \div 10 - 1
    ELSE (sp * (9 + j)) \div 10

split_parameter(tct, mtm) == IF mtm < tct THEN (tct - mtm) \div 2 ELSE 0

mid_point(doc) == Len(Split(doc)) \div 2

\* the candidate of the j-th multiplier
Candidate(doc, tct, mtm, j) ==
    LET doc_words == Split(doc)
        cut == CutWords(split_parameter(tct, mtm), j)
    IN  Join(PySliceTo(doc_words, mid_point(doc) - cut))
        \o MARKER
        \o Join(PySliceFrom(doc_words, mid_point(doc) + cut))

\* `if num_tokens_doc < max_token_model - num_token_prompt: break`
Fits(cand, c, mtm, ntp) == token_count_tokenizer(cand, c) < mtm - ntp

Chars == {"a", " "}
Documents == UNION {[1..n -> Chars] : n \in 0..MaxDocLen}

\* one iteration of `for multiplier in multipliers`
TruncStep ==
    /\ tpc = "sweep"
    /\ cuts < NumMultipliers
    /\ cuts' = cuts + 1
    /\ truncated_doc' = Candidate(document, token_count_total, max_token_model, cuts + 1)
    /\ tpc' = IF Fits(truncated_doc', cpt, max_token_model, num_token_prompt)
                 \/ cuts + 1 = NumMultipliers
              THEN "returned" ELSE "sweep"
    /\ UNCHANGED <<document, token_count_total, num_token_prompt, max_token_model, cpt>>
    /\ UNCHANGED notTrunc

(***************************************************************************)
(* Response Parser.  A text is a sequence of lexemes: the delimiters       *)
(* "<json>" and "</json>", the brackets and separators of a literal,       *)
(* string and number literals, bare names, "ws" (one blank or one newline) *)
(* and "nn" (a run of two or more newlines).                               *)
(***************************************************************************)
NumLex == {"1"}
StrLex == {"\"a\"", "\"b\"", "'a'"}
PyConstLex == {"True", "False", "None"}
\* bare names that are no Python literal: JSON's true/false/null, a word
NameLex == {"true", "false", "null", "w"}
Blank == {"ws", "nn"}

\* the characters between the quotes of a string literal
StrVal(lex) == IF lex = "\"b\"" THEN "b" ELSE "a"
Quote(str) == IF str = "b" THEN "\"b\"" ELSE "\"a\""

\* A Python value: kind, atom (of a number, string, bool, None) and items
\* (of a list, dict, set, tuple; a dict holds "pair" values of <<key, value>>).
Val(kind, atom, items) == [kind |-> kind, atom |-> atom, items |-> items]
NoValue == Val("absent", "", <<>>)
EmptyDict == Val("dict", "", <<>>)
Pair(key, v) == Val("pair", "", <<key, v>>)

IndexOf(s, x) == CHOOSE j \in 1..Len(s) : s[j] = x /\ \A h \in 1..(j-1) : s[h] /= x
LastIndexOf(s, x) == CHOOSE j \in 1..Len(s) : s[j] = x /\ \A h \in (j+1)..Len(s) : s[h] /= x
Has(s, x) == \E j \in 1..Len(s) : s[j] = x

RECURSIVE LStrip(_)
LStrip(s) == IF s /= <<>> /\ s[1] \in Blank THEN LStrip(Tail(s)) ELSE s
RECURSIVE RStrip(_)
RStrip(s) == IF s /= <<>> /\ s[Len(s)] \in Blank THEN RStrip(SubSeq(s, 1, Len(s) - 1)) ELSE s
\* str.strip()
Strip(s) == RStrip(LStrip(s))

\* text.split("<json>", 1)[1].rsplit("</json>", 1)[0].strip(), and
\* text.strip() when the split has no second part (IndexError)
InnerSpan(s) ==
    IF Has(s, "<json>")
    THEN LET after == SubSeq(s, IndexOf(s, "<json>") + 1, Len(s))
         IN  Strip(IF Has(after, "</json>")
                   THEN SubSeq(after, 1, LastIndexOf(after, "</json>") - 1)
                   ELSE after)
    ELSE Strip(s)

\* re.sub(r"\n\n+", ",", text)
CollapseBlankLines(s) == [j \in 1..Len(s) |-> IF s[j] = "nn" THEN "," ELSE s[j]]

\* the two bracket completions
CompleteBrackets(s) ==
    LET opened == IF s /= <<>> /\ s[1] \in {"{", "["} THEN s ELSE <<"{">> \o s
    IN  IF opened[Len(opened)] \in {"}", "]"} THEN opened ELSE opened \o <<"}">>

RECURSIVE ReplaceDouble(_, _)
\* text.replace(b + b, b): non-overlapping, left to right
ReplaceDouble(s, b) ==
    IF Len(s) < 2 THEN s
    ELSE IF s[1] = b /\ s[2] = b THEN <<b>> \o ReplaceDouble(SubSeq(s, 3, Len(s)), b)
    ELSE <<s[1]>> \o ReplaceDouble(Tail(s), b)

\* the candidate handed to ast.literal_eval
Repaired(s) ==
    ReplaceDouble(ReplaceDouble(CompleteBrackets(CollapseBlankLines(InnerSpan(s))), "}"), "{")

(***************************************************************************)
(* ast.literal_eval on the lexemes of a candidate: numbers, strings,       *)
(* True/False/None, lists, dicts, sets and a top-level tuple; a bare name, *)
(* an unhashable key or element and a syntax error raise.                  *)
(***************************************************************************)
Fail == [ok |-> FALSE, val |-> NoValue, next |-> 0]
Ok(v, n) == [ok |-> TRUE, val |-> v, next |-> n]
Hashable(v) == v.kind \notin {"dict", "list", "set"}

RECURSIVE PutKey(_, _)
\* d[key] = value on the pairs of a dict: a repeated key keeps its place
PutKey(pairs, p) ==
    IF pairs = <<>> THEN <<p>>
    ELSE IF pairs[1].items[1] = p.items[1] THEN <<p>> \o Tail(pairs)
    ELSE <<pairs[1]>> \o PutKey(Tail(pairs), p)

RECURSIVE AddElem(_, _)
AddElem(elems, e) ==
    IF elems = <<>> THEN <<e>>
    ELSE IF elems[1] = e THEN elems
    ELSE <<elems[1]>> \o AddElem(Tail(elems), e)

RECURSIVE ParseValue(_, _)
RECURSIVE ParseItems(_, _, _, _)
RECURSIVE ParseEntries(_, _, _, _)

\* a comma-separated run of values up to `close` (a trailing comma allowed);
\* close = "" reads up to the end of the text
ParseItems(t, j, close, acc) ==
    IF j > Len(t) THEN (IF close = "" THEN Ok(acc, j) ELSE Fail)
    ELSE IF t[j] = close THEN Ok(acc, j + 1)
    ELSE LET r == ParseValue(t, j)
         IN  IF ~r.ok THEN Fail
             ELSE IF r.next <= Len(t) /\ t[r.next] = ","
                  THEN ParseItems(t, r.next + 1, close, Append(acc, r.val))
             ELSE IF r.next > Len(t) /\ close = "" THEN Ok(Append(acc, r.val), r.next)
             ELSE IF r.next <= Len(t) /\ t[r.next] = close
                  THEN Ok(Append(acc, r.val), r.next + 1)
             ELSE Fail

\* the entries of a non-empty brace display: key: value pairs of a dict, or
\* the elements of a set
ParseEntries(t, j, isDict, acc) ==
    IF j > Len(t) THEN Fail
    ELSE IF t[j] = "}" THEN Ok(acc, j + 1)
    ELSE LET k == ParseValue(t, j)
         IN  IF ~k.ok \/ ~Hashable(k.val) THEN Fail
             ELSE LET v == IF isDict
                           THEN (IF k.next <= Len(t) /\ t[k.next] = ":"
                                 THEN ParseValue(t, k.next + 1) ELSE Fail)
                           ELSE k
                      acc2 == IF isDict THEN PutKey(acc, Pair(k.val, v.val))
                              ELSE AddElem(acc, k.val)
                 IN  IF ~v.ok THEN Fail
                     ELSE IF v.next <= Len(t) /\ t[v.next] = ","
                          THEN ParseEntries(t, v.next + 1, isDict, acc2)
                     ELSE IF v.next <= Len(t) /\ t[v.next] = "}"
                          THEN Ok(acc2, v.next + 1)
                     ELSE Fail

ParseValue(t, j) ==
    IF j > Len(t) THEN Fail
    ELSE IF t[j] \in NumLex THEN Ok(Val("num", t[j], <<>>), j + 1)
    ELSE IF t[j] \in StrLex THEN Ok(Val("str", StrVal(t[j]), <<>>), j + 1)
    ELSE IF t[j] \in {"True", "False"} THEN Ok(Val("bool", t[j], <<>>), j + 1)
    ELSE IF t[j] = "None" THEN Ok(Val("none", "None", <<>>), j + 1)
    ELSE IF t[j] = "["
         THEN LET r == ParseItems(t, j + 1, "]", <<>>)
              IN  IF r.ok THEN Ok(Val("list", "", r.val), r.next) ELSE Fail
    ELSE IF t[j] = "{"
         THEN IF j + 1 <= Len(t) /\ t[j + 1] = "}" THEN Ok(EmptyDict, j + 2)
              ELSE LET first == ParseValue(t, j + 1)
                       isDict == first.ok /\ first.next <= Len(t) /\ t[first.next] = ":"
                       r == ParseEntries(t, j + 1, isDict, <<>>)
                   IN  IF r.ok
                       THEN Ok(Val(IF isDict THEN "dict" ELSE "set", "", r.val), r.next)
                       ELSE Fail
    ELSE Fail

\* ast.literal_eval(text): ok = FALSE when it raises
literal_eval(s) ==
    LET t == SelectSeq(s, LAMBDA x : x \notin Blank)
        r == ParseValue(t, 1)
    IN  IF ~r.ok THEN Fail
        ELSE IF r.next > Len(t) THEN r
        ELSE IF t[r.next] = ","
             THEN LET more == ParseItems(t, r.next + 1, "", <<r.val>>)
                  IN  IF more.ok THEN Ok(Val("tuple", "", more.val), more.next) ELSE Fail
        ELSE Fail

\* parse_json_string(text): the value returned, ok = FALSE when it raises
parse_json_string(s) == literal_eval(Repaired(s))

(***************************************************************************)
(* json.dumps(V) as lexemes, with its ", " and ": " separators.            *)
(***************************************************************************)
RECURSIVE Dumps(_)
RECURSIVE DumpsSeq(_)
DumpsSeq(xs) ==
    IF xs = <<>> THEN <<>>
    ELSE Dumps(xs[1]) \o (IF Len(xs) > 1 THEN <<",", "ws">> \o DumpsSeq(Tail(xs)) ELSE <<>>)
Dumps(v) ==
    CASE v.kind = "num" -> <<v.atom>>
      [] v.kind = "str" -> <<Quote(v.atom)>>
      [] v.kind = "bool" -> <<IF v.atom = "True" THEN "true" ELSE "false">>
      [] v.kind = "none" -> <<"null">>
      [] v.kind = "list" -> <<"[">> \o DumpsSeq(v.items) \o <<"]">>
      [] v.kind = "dict" -> <<"{">> \o DumpsSeq(v.items) \o <<"}">>
      [] v.kind = "pair" -> Dumps(v.items[1]) \o <<":", "ws">> \o Dumps(v.items[2])

\* the JSON-serializable values of nesting depth <= d
JsonAtoms == {Val("num", "1", <<>>), Val("str", "a", <<>>), Val("bool", "True", <<>>),
              Val("none", "None", <<>>)}
KeyA == Val("str", "a", <<>>)
KeyB == Val("str", "b", <<>>)
RECURSIVE JsonValues(_)
JsonValues(d) ==
    IF d = 0 THEN JsonAtoms
    ELSE LET S == JsonValues(d - 1)
         IN  S \cup {EmptyDict, Val("list", "", <<>>)}
               \cup {Val("dict", "", <<Pair(KeyA, x)>>) : x \in S}
               \cup {Val("dict", "", <<Pair(KeyA, x), Pair(KeyB, x)>>) : x \in S}
               \cup {Val("list", "", <<x>>) : x \in S}
               \cup {Val("list", "", <<x, KeyB>>) : x \in S}

ProseBefore == {<<>>, <<"w", "ws">>, <<"w", "nn">>}
ProseAfter == {<<>>, <<"ws", "w">>, <<"nn", "w">>}

\* prose + "<json>" + dumps(V) + "</json>" + prose
Wrapped(before, v, after) == before \o <<"<json>">> \o Dumps(v) \o <<"</json>">> \o after

FreeLex == {"<json>", "</json>", "{", "}", "[", ",", ":", "\"a\"", "1", "w", "nn"}
\* two adjacent atoms, or two adjacent newline runs, would be one lexeme
AtomLex == NumLex \cup StrLex \cup PyConstLex \cup NameLex
WellLexed(s) ==
    \A j \in 1..(Len(s) - 1) :
        /\ ~(s[j] \in AtomLex /\ s[j + 1] \in AtomLex)
        /\ ~(s[j] \in Blank /\ s[j + 1] \in Blank)
FreeTexts == {s \in UNION {[1..n -> FreeLex] : n \in 0..MaxFreeLen} : WellLexed(s)}

\* answers without braces: runs "key: value" separated by blank lines
KeyLex == {"\"a\"", "\"b\"", "w"}
ValueLex == {"1", "\"a\"", "w"}
KeyValueRuns == {<<k, ":", "ws", v>> : k \in KeyLex, v \in ValueLex}
RECURSIVE KeyValueTextsOf(_)
KeyValueTextsOf(n) ==
    IF n = 1 THEN KeyValueRuns
    ELSE {t \o <<"nn">> \o r : t \in KeyValueTextsOf(n - 1), r \in KeyValueRuns}
KeyValueTexts == UNION {KeyValueTextsOf(n) : n \in 1..MaxRuns}

\* parse_json_string(text) returns
ParseReturn ==
    /\ ppc = "call"
    /\ parse_json_string(text).ok
    /\ ppc' = "returned"
    /\ result' = parse_json_string(text).val
    /\ UNCHANGED <<text, source>>
    /\ UNCHANGED notParser

\* parse_json_string(text) raises
ParseRaise ==
    /\ ppc = "call"
    /\ ~parse_json_string(text).ok
    /\ ppc' = "raised"
    /\ UNCHANGED <<text, source, result>>
    /\ UNCHANGED notParser

(***************************************************************************)
(* Table Reconciler: compile_tables (run_textract/utils.py).               *)
(*                                                                         *)
(* A fragment is one table of document.tables: its OCR title ("" when it   *)
(* has none), whether that title occurs in the page's title or header      *)
(* text, and the column labels of its data frame.  "#0", "#1" are the      *)
(* default positional labels 0, 1 of a frame without a header row.         *)
(* Fragment j carries the rows <<j, 1>> and <<j, 2>>.                      *)
(***************************************************************************)
PosLabel == <<"#0", "#1", "#2">>
DefaultColumns(n) == [j \in 1..n |-> PosLabel[j]]

Titles == {"Damages", "Costs"}
ColumnSets == {<<"A", "B">>, <<"X", "Y">>, <<"A">>, DefaultColumns(2)}
Fragments ==
    {[title |-> "", dup |-> FALSE, columns |-> c] : c \in ColumnSets}
    \cup [title : Titles, dup : BOOLEAN, columns : ColumnSets]

RowsOf(j) == <<<<j, 1>>, <<j, 2>>>>

\* f"table_{i+1}", n = i + 1
Placeholder(n) == <<"table_1", "table_2", "table_3", "table_4", "table_5", "table_6">>[n]

\* lines 133-146: the title of the n-th table
new_title(table, n) ==
    IF table.title /= "" /\ ~table.dup THEN table.title ELSE Placeholder(n)

\* the condition without its default-labels alternative
ContinuesOnNamedColumns(table, n, lastTitle, lastColumns) ==
    /\ (new_title(table, n) = lastTitle \/ new_title(table, n) = Placeholder(n))
    /\ Len(table.columns) = Len(lastColumns)
    /\ table.columns = lastColumns

\* lines 151-158: the table continues the last logical table
Continues(table, n, lastTitle, lastColumns) ==
    /\ (new_title(table, n) = lastTitle \/ new_title(table, n) = Placeholder(n))
    /\ Len(table.columns) = Len(lastColumns)
    /\ (table.columns = lastColumns \/ table.columns = DefaultColumns(Len(table.columns)))

HasKey(d, key) == \E j \in 1..Len(d) : d[j].title = key
Lookup(d, key) == d[CHOOSE j \in 1..Len(d) : d[j].title = key]

\* d[key] = entry on an insertion-ordered dict: an existing key is replaced
SetItem(d, entry) ==
    IF HasKey(d, entry.title)
    THEN [j \in 1..Len(d) |-> IF d[j].title = entry.title THEN entry ELSE d[j]]
    ELSE Append(d, entry)

\* the concatenation under the default positional labels
ConcatDefaultLabels(old, newRows, lastColumns) ==
    [title |-> old.title, columns |-> DefaultColumns(Len(lastColumns)),
     rows |-> old.rows \o newRows]

\* the concatenation with the new rows put first
ConcatNewFirst(old, newRows, lastColumns) ==
    [title |-> old.title, columns |-> lastColumns, rows |-> newRows \o old.rows]

\* lines 163-168: pd.concat([all_tables[last_title], pandas_table]) after
\* pandas_table.columns = last_valid_table_columns
Concat(old, newRows, lastColumns) ==
    [title |-> old.title, columns |-> lastColumns, rows |-> old.rows \o newRows]

\* one iteration of `for i, table in enumerate(document.tables)` that appends
CompileAppend ==
    /\ cpc = "loop"
    /\ ti < Len(tables)
    /\ Continues(tables[ti + 1], ti + 1, last_title, last_valid_table_columns)
    /\ all_tables' = SetItem(all_tables,
                             Concat(Lookup(all_tables, last_title), RowsOf(ti + 1),
                                    last_valid_table_columns))
    /\ ti' = ti + 1
    /\ UNCHANGED <<tables, last_title, last_valid_table_columns, cpc>>
    /\ UNCHANGED notTables

\* one iteration that creates a table
CompileCreate ==
    /\ cpc = "loop"
    /\ ti < Len(tables)
    /\ ~Continues(tables[ti + 1], ti + 1, last_title, last_valid_table_columns)
    /\ all_tables' = SetItem(all_tables,
                             [title |-> new_title(tables[ti + 1], ti + 1),
                              columns |-> tables[ti + 1].columns,
                              rows |-> RowsOf(ti + 1)])
    /\ last_valid_table_columns' = tables[ti + 1].columns
    /\ last_title' = new_title(tables[ti + 1], ti + 1)
    /\ ti' = ti + 1
    /\ UNCHANGED <<tables, cpc>>
    /\ UNCHANGED notTables

\* `return all_tables`
CompileReturn ==
    /\ cpc = "loop"
    /\ ti = Len(tables)
    /\ cpc' = "returned"
    /\ UNCHANGED <<tables, ti, all_tables, last_title, last_valid_table_columns>>
    /\ UNCHANGED notTables

(***************************************************************************)
(* Model identities.  An identity "vendor.name" is the pair                *)
(* <<vendor, name>> of the text before and after its first ".", so that    *)
(* model_id.split(".")[0] is its first component.                          *)
(***************************************************************************)
\* ALL_MODEL_SPECS (streamlit/src/components/model.py): what the front-end submits
ALL_MODEL_SPECS ==
    {<<"anthropic", "claude-3-haiku-20240307-v1:0">>,
     <<"anthropic", "claude-3-sonnet-20240229-v1:0">>,
     <<"anthropic", "claude-3-opus-20240229-v1:0">>,
     <<"anthropic", "claude-3-5-sonnet-20240620-v1:0">>,
     <<"anthropic", "claude-v2:1">>,
     <<"anthropic", "claude-v2">>,
     <<"anthropic", "claude-instant-v1">>,
     <<"mistral", "mistral-large-2402-v1:0">>,
     <<"mistral", "mixtral-8x7b-instruct-v0:1">>,
     <<"mistral", "mistral-7b-instruct-v0:2">>,
     <<"amazon", "titan-text-premier-v1:0">>,
     <<"amazon", "titan-text-express-v1">>,
     <<"amazon", "titan-text-lite-v1">>,
     <<"meta", "llama3-70b-instruct-v1:0">>,
     <<"meta", "llama3-8b-instruct-v1:0">>,
     <<"meta", "llama2-70b-chat-v1">>,
     <<"meta", "llama2-13b-chat-v1">>,
     <<"cohere", "command-r-plus-v1:0">>,
     <<"cohere", "command-r-v1:0">>,
     <<"cohere", "command-text-v14">>,
     <<"cohere", "command-light-text-v14">>,
     <<"ai21", "j2-ultra-v1">>,
     <<"ai21", "j2-mid-v1">>}

\* identities of no supported vendor; "metaverse.x1" starts with "meta"
OtherModelIds == {<<"openai", "gpt-4">>, <<"metaverse", "x1">>}

ModelIds == ALL_MODEL_SPECS \cup OtherModelIds

SupportedVendors == {"anthropic", "amazon", "meta", "cohere", "mistral", "ai21"}

\* model_id.split(".")[0]
VendorPrefix(model_id) == model_id[1]

\* model_id.startswith(v), v a vendor name: the first component is v or
\* begins with v
StartsWith(model_id, v) ==
    model_id[1] = v \/ (v = "meta" /\ model_id[1] = "metaverse")

(***************************************************************************)
(* Model Parameter Adapter of the text handler: get_model_params           *)
(* (extract_attributes_llm/model/bedrock.py).  The empty function <<>> is  *)
(* the empty dict.                                                         *)
(***************************************************************************)
get_model_params(model_id, params) ==
    IF StartsWith(model_id, "ai21") THEN
        [maxTokens |-> params["max_tokens"], stopSequences |-> params["stop_words"],
         temperature |-> params["temperature"], topP |-> params["top_p"],
         topKReturn |-> params["top_k"]]
    ELSE IF StartsWith(model_id, "amazon") THEN
        [maxTokenCount |-> params["max_tokens"], stopSequences |-> <<>>,
         temperature |-> params["temperature"], topP |-> params["top_p"]]
    ELSE IF StartsWith(model_id, "anthropic") THEN
        [max_tokens |-> params["max_tokens"], stop_sequences |-> params["stop_words"],
         temperature |-> params["temperature"], top_p |-> params["top_p"],
         top_k |-> params["top_k"]]
    ELSE IF StartsWith(model_id, "cohere") THEN
        [max_tokens |-> params["max_tokens"], temperature |-> params["temperature"],
         p |-> params["top_p"], k |-> params["top_k"]]
    ELSE IF StartsWith(model_id, "meta") THEN
        [max_gen_len |-> params["max_tokens"], temperature |-> params["temperature"],
         top_p |-> params["top_p"]]
    ELSE IF StartsWith(model_id, "mistral") THEN
        [max_tokens |-> params["max_tokens"], temperature |-> params["temperature"],
         top_p |-> params["top_p"], top_k |-> params["top_k"]]
    ELSE <<>>

(***************************************************************************)
(* Model Parameter Adapter of the multimodal handler: ModelSpecificParams  *)
(* (extract_attributes_llm/model/params.py).                               *)
(***************************************************************************)
titan_mapping == [max_tokens |-> "maxTokenCount", stop_sequences |-> "stopSequences",
                  temperature |-> "temperature", top_p |-> "topP"]
anthropic_mapping == [max_tokens |-> "max_tokens", stop_sequences |-> "stop_sequences",
                      temperature |-> "temperature", top_p |-> "top_p"]
mistral_mapping == [max_tokens |-> "max_tokens", temperature |-> "temperature",
                    top_p |-> "top_p"]
cohere_mapping == [max_tokens |-> "max_tokens", temperature |-> "temperature"]
meta_mapping == [max_tokens |-> "max_gen_len", temperature |-> "temperature",
                 top_p |-> "top_p"]
ai21_mapping == [max_tokens |-> "maxTokens", stop_sequences |-> "stopSequences",
                 temperature |-> "temperature", top_p |-> "topP"]

\* the keys of __maps__
MappedIds ==
    {<<"anthropic", "claude-3-sonnet-20240229-v1:0">>,
     <<"anthropic", "claude-3-haiku-20240307-v1:0">>,
     <<"anthropic", "claude-v2:1">>,
     <<"anthropic", "claude-v2">>,
     <<"anthropic", "claude-v1">>,
     <<"anthropic", "claude-instant-v1">>,
     <<"mistral", "mistral-large-2402-v1:0">>,
     <<"mistral", "mixtral-8x7b-instruct-v0:1">>,
     <<"mistral", "mistral-7b-instruct-v0:2">>,
     <<"amazon", "titan-text-express-v1">>,
     <<"amazon", "titan-text-lite-v1">>,
     <<"meta", "llama2-70b-chat-v1">>,
     <<"meta", "llama2-13b-chat-v1">>,
     <<"cohere", "command-text-v14">>,
     <<"cohere", "command-light-text-v14">>,
     <<"ai21", "j2-ultra-v1">>,
     <<"ai21", "j2-mid-v1">>}

\* the mapping a vendor's identities are given in __maps__
VendorMapping(vendor) ==
    CASE vendor = "anthropic" -> anthropic_mapping
      [] vendor = "mistral" -> mistral_mapping
      [] vendor = "amazon" -> titan_mapping
      [] vendor = "meta" -> meta_mapping
      [] vendor = "cohere" -> cohere_mapping
      [] vendor = "ai21" -> ai21_mapping

\* __maps__[model_id], for model_id in MappedIds
maps(model_id) == VendorMapping(model_id[1])

\* the target field names of a mapping
Targets(mapping) == {mapping[f] : f \in DOMAIN mapping}

\* ModelSpecificParams.to_dict()
to_dict(params, mapping) ==
    LET kept == DOMAIN params \cap DOMAIN mapping
    IN  [t \in {mapping[f] : f \in kept} |->
            params[CHOOSE f \in kept : mapping[f] = t]]

(***************************************************************************)
(* The extraction handlers.  One process (a Lambda execution environment)  *)
(* runs one of the two handlers and serves its requests one after the      *)
(* other; the module-level GENERATOR_CONFIG lives as long as the process.  *)
(* hpc names the statement the handler is about to run.                    *)
(***************************************************************************)
\* MAX_DOC_LENGTH_DIC of the text handler; its last key is "ai21.j2-mid-v1,"
MAX_DOC_LENGTH_DIC ==
    (<<"anthropic", "claude-3-opus-20240229-v1:0">> :> 200000)
    @@ (<<"anthropic", "claude-3-sonnet-20240229-v1:0">> :> 200000)
    @@ (<<"anthropic", "claude-3-haiku-20240307-v1:0">> :> 200000)
    @@ (<<"anthropic", "claude-v2:1">> :> 200000)
    @@ (<<"anthropic", "claude-v2">> :> 100000)
    @@ (<<"anthropic", "claude-instant-v1">> :> 100000)
    @@ (<<"mistral", "mistral-large-2402-v1:0">> :> 32000)
    @@ (<<"mistral", "mixtral-8x7b-instruct-v0:1">> :> 32000)
    @@ (<<"mistral", "mistral-7b-instruct-v0:2">> :> 32000)
    @@ (<<"amazon", "titan-text-premier-v1:0">> :> 32000)
    @@ (<<"amazon", "titan-text-express-v1">> :> 8000)
    @@ (<<"amazon", "titan-text-lite-v1">> :> 4000)
    @@ (<<"meta", "llama3-70b-instruct-v1:0">> :> 8000)
    @@ (<<"meta", "llama3-8b-instruct-v1:0">> :> 8000)
    @@ (<<"meta", "llama2-70b-chat-v1">> :> 4096)
    @@ (<<"meta", "llama2-13b-chat-v1">> :> 4096)
    @@ (<<"cohere", "command-r-plus-v1:0">> :> 128000)
    @@ (<<"cohere", "command-r-v1:0">> :> 128000)
    @@ (<<"cohere", "command-text-v14">> :> 4000)
    @@ (<<"cohere", "command-light-text-v14">> :> 4000)
    @@ (<<"ai21", "j2-ultra-v1">> :> 8191)
    @@ (<<"ai21", "j2-mid-v1,">> :> 8191)

\* GENERATOR_CONFIG as the module is loaded (both handlers)
GeneratorConfigInit == [top_p |-> 1, top_k |-> 50, stop_words |-> <<>>, max_tokens |-> 4096]

MetaMaxTokens == 2048
DefaultAnswerLength == 1024

\* temperatures, in tenths
Temperatures == {0, 7}

\* d[key] = value on a dict
DictSet(d, key, value) == (key :> value) @@ d

NoParams == [unbound |-> TRUE]

AttributeLists ==
    {<<>>,
     <<[name |-> "order_id", description |-> "the order number"]>>,
     <<[name |-> "amount", description |-> "the total", type |-> "Number"],
       [name |-> "note", description |-> "any remark", type |-> "Auto"]>>}

\* str.lower() on the attribute types of the front-end
Lower(type) ==
    CASE type = "Number" -> "number"
      [] type = "Auto" -> "auto"
      [] type = "Character" -> "character"
      [] type = "True/False" -> "true/false"

\* lines 123-128 of the text handler: one entry per line of attributes_str,
\* <<i + 1, name, description, "(must be <type>)." or "">>
AttributeLine(attributes, n) ==
    <<n, attributes[n].name, attributes[n].description,
      IF "type" \in DOMAIN attributes[n] /\ Lower(attributes[n].type) /= "auto"
      THEN Lower(attributes[n].type) ELSE "">>
AttributesStr(attributes) == [n \in 1..Len(attributes) |-> AttributeLine(attributes, n)]

\* what the model would answer to the request, were it invoked
Answers == {<<"<json>", "{", "\"a\"", ":", "1", "}", "</json>">>, <<"w", "ws", "w">>}

\* the requests to the text handler; `given` holds the optional keys the
\* body has
TextRequests ==
    {[model_params |-> [model_id |-> id, temperature |-> t],
      given |-> given, attributes |-> attrs] :
        id \in ModelIds, t \in Temperatures,
        given \in SUBSET {"document", "file_key"}, attrs \in AttributeLists}

\* the requests to the multimodal handler
ImageRequests ==
    {[model_params |-> mp, given |-> given, attributes |-> <<>>] :
        mp \in {[model_id |-> id, temperature |-> t] : id \in ModelIds, t \in Temperatures}
               \cup {[model_id |-> id, temperature |-> t, answer_length |-> 512] :
                        id \in ModelIds, t \in Temperatures},
        given \in SUBSET {"file_name"}}

\* the handler is invoked with a request; its locals are unbound
Receive ==
    /\ hpc \in {"Idle", "Failed"}
    /\ served < MaxRequests
    /\ body' \in IF handler = "text" THEN TextRequests ELSE ImageRequests
    /\ llm_answer' \in Answers
    /\ hpc' = IF handler = "text" THEN "LoadDocument" ELSE "AdaptParams"
    /\ model_params' = NoParams
    /\ attributes_str' = <<>>
    /\ error' = "none"
    /\ served' = served + 1
    /\ UNCHANGED <<handler, GENERATOR_CONFIG>>
    /\ UNCHANGED notHandler

\* the handler raises: the error leaves it, the process stays
Raise(kind) ==
    /\ hpc' = "Failed"
    /\ error' = kind

\* text handler, lines 99-104: body["file_key"] is read when no document is inline
TextLoadDocument ==
    /\ handler = "text"
    /\ hpc = "LoadDocument"
    /\ IF "document" \notin body.given /\ "file_key" \notin body.given
       THEN Raise("KeyError") /\ UNCHANGED body
       ELSE /\ body' = [body EXCEPT !.given = @ \cup {"document"}]
            /\ hpc' = "AdaptParams"
            /\ UNCHANGED error
    /\ UNCHANGED <<handler, GENERATOR_CONFIG, llm_answer, model_params, attributes_str, served>>
    /\ UNCHANGED notHandler

\* lines 107-111 (text) and 96-100 (multimodal): the per-request overrides
\* written into the module-level GENERATOR_CONFIG
Override(config, mp) ==
    LET withTemp == DictSet(config, "temperature", mp.temperature)
    IN  IF VendorPrefix(mp.model_id) = "meta"
        THEN DictSet(withTemp, "max_tokens", MetaMaxTokens)
        ELSE withTemp

\* text handler, lines 106-114
TextAdaptParams ==
    /\ handler = "text"
    /\ hpc = "AdaptParams"
    /\ GENERATOR_CONFIG' = Override(GENERATOR_CONFIG, body.model_params)
    /\ model_params' = get_model_params(body.model_params.model_id, GENERATOR_CONFIG')
    /\ hpc' = "BuildPrompt"
    /\ UNCHANGED <<handler, body, llm_answer, attributes_str, error, served>>
    /\ UNCHANGED notHandler

\* text handler, lines 116-139: the attributes text, the LLM client and the
\* prompt template
TextBuildPrompt ==
    /\ handler = "text"
    /\ hpc = "BuildPrompt"
    /\ attributes_str' = AttributesStr(body.attributes)
    /\ hpc' = "Truncate"
    /\ UNCHANGED <<handler, GENERATOR_CONFIG, body, llm_answer, model_params, error, served>>
    /\ UNCHANGED notHandler

\* text handler, lines 141-147: the arguments of truncate_document read
\* token_count_total, a name the module never binds
TextTruncate ==
    /\ handler = "text"
    /\ hpc = "Truncate"
    /\ Raise("NameError")
    /\ UNCHANGED <<handler, GENERATOR_CONFIG, body, llm_answer, model_params,
                   attributes_str, served>>
    /\ UNCHANGED notHandler

\* BedrockParams(...) of lines 121-126
BedrockParams(mp) ==
    [max_tokens |-> IF "answer_length" \in DOMAIN mp THEN mp.answer_length
                    ELSE DefaultAnswerLength,
     stop_sequences |-> <<"\n\nuser:">>,
     temperature |-> mp.temperature,
     top_p |-> 95]

\* multimodal handler, lines 95-129: __maps__[model_id] raises KeyError for
\* an identity that is no key of __maps__
ImageAdaptParams ==
    /\ handler = "image"
    /\ hpc = "AdaptParams"
    /\ GENERATOR_CONFIG' = Override(GENERATOR_CONFIG, body.model_params)
    /\ IF body.model_params.model_id \in MappedIds
       THEN /\ model_params' = to_dict(BedrockParams(body.model_params),
                                       maps(body.model_params.model_id))
            /\ hpc' = "FillPrompt"
            /\ UNCHANGED error
       ELSE Raise("KeyError") /\ UNCHANGED model_params
    /\ UNCHANGED <<handler, body, llm_answer, attributes_str, served>>
    /\ UNCHANGED notHandler

\* multimodal handler, lines 131-136: filled_prompt calls str.format on the
\* template, whose example JSON has single braces: the replacement field
\* '\n    "severity_of_damage"' has no value
ImageFillPrompt ==
    /\ handler = "image"
    /\ hpc = "FillPrompt"
    /\ Raise("KeyError")
    /\ UNCHANGED <<handler, GENERATOR_CONFIG, body, llm_answer, model_params,
                   attributes_str, served>>
    /\ UNCHANGED notHandler

\* the state of the orchestrator's state machine (4.8) the handler is in
Stage(pc) ==
    CASE pc \in {"LoadDocument", "AdaptParams", "BuildPrompt"} -> "Received"
      [] pc = "Truncate" -> "Truncating"
      [] pc = "FillPrompt" -> "PromptReady"
      [] OTHER -> pc

(***************************************************************************)
(* Multimodal Content Packager: create_human_message_with_imgs             *)
(* (extract_attributes_llm/helpers.py).                                    *)
(*                                                                         *)
(* A file is None, or a path with an extension and the pages it holds:     *)
(* the pages of a PDF, or the one image of an image file.                  *)
(***************************************************************************)
None == [none |-> TRUE]

PageIds == <<"p1", "p2", "p3", "p4", "p5">>
Pages(n) == [j \in 1..n |-> PageIds[j]]

Files ==
    {None}
    \cup {[ext |-> e, pages |-> Pages(n)] : e \in {".pdf", ".PDF"}, n \in 0..MaxPdfPages}
    \cup {[ext |-> e, pages |-> Pages(1)] : e \in {".png", ".jpg", ".jpeg", ".JPG", ".txt"}}

\* str.lower() on a file extension
LowerExt(e) == CASE e = ".PDF" -> ".pdf" [] e = ".JPG" -> ".jpg" [] OTHER -> e

\* base64.b64encode(bytes).decode("utf-8")
B64(bytes) == [base64 |-> bytes]

\* the pages encoded last page first
PagesLastFirst(f) ==
    [j \in 1..Len(f.pages) |->
        B64([format |-> "JPEG", image |-> f.pages[Len(f.pages) + 1 - j]])]

\* get_base64_encoded_images_from_pdf: every page saved as JPEG, in order
get_base64_encoded_images_from_pdf(f) ==
    [j \in 1..Len(f.pages) |-> B64([format |-> "JPEG", image |-> f.pages[j]])]

\* lines 25-28: the bytes of an image file as they are
ImageFileStrs(f) ==
    <<B64([format |-> IF LowerExt(f.ext) = ".png" THEN "PNG" ELSE "JPEG",
           image |-> f.pages[1]])>>

ImageBlock(data) ==
    [type |-> "image",
     source |-> [type |-> "base64", media_type |-> "image/jpeg", data |-> data]]
TextBlock(t) == [type |-> "text", text |-> t]

\* the extensions of lines 23 and 25
ImageExts == {".jpeg", ".jpg", ".png"}

\* create_human_message_with_imgs(text, file, max_pages): the message, or
\* the exception raised
create_human_message_with_imgs(t, f, m) ==
    IF f = None
    THEN [raised |-> "none", role |-> "user", content |-> <<TextBlock(t)>>]
    ELSE IF LowerExt(f.ext) /= ".pdf" /\ LowerExt(f.ext) \notin ImageExts
    THEN [raised |-> "UnboundLocalError", role |-> "user", content |-> <<>>]
    ELSE LET all == IF LowerExt(f.ext) = ".pdf"
                    THEN get_base64_encoded_images_from_pdf(f)
                    ELSE ImageFileStrs(f)
             base64_img_strs == PySliceTo(all, m)
         IN  IF base64_img_strs = <<>>
             THEN [raised |-> "ValueError", role |-> "user", content |-> <<>>]
             ELSE [raised |-> "none", role |-> "user",
                   content |-> [j \in 1..Len(base64_img_strs) |->
                                   ImageBlock(base64_img_strs[j])]
                               \o <<TextBlock(t)>>]

\* the call returns a message
PackReturn ==
    /\ mpc = "call"
    /\ create_human_message_with_imgs(prompt_text, file, max_pages).raised = "none"
    /\ message' = create_human_message_with_imgs(prompt_text, file, max_pages)
    /\ mpc' = "returned"
    /\ UNCHANGED <<file, max_pages, prompt_text>>
    /\ UNCHANGED notPack

\* the call raises
PackRaise ==
    /\ mpc = "call"
    /\ create_human_message_with_imgs(prompt_text, file, max_pages).raised /= "none"
    /\ message' = create_human_message_with_imgs(prompt_text, file, max_pages)
    /\ mpc' = "raised"
    /\ UNCHANGED <<file, max_pages, prompt_text>>
    /\ UNCHANGED notPack


(***************************************************************************)
(* Prompt Template Builder: load_prompt_template                           *)
(* (extract_attributes/prompt.py).                                         *)
(*                                                                         *)
(* A template text is a sequence of tokens: a piece of literal text, a     *)
(* newline, the marker <document_level_instructions_placeholder>, an       *)
(* escaped brace pair "{{name}}" and a replacement field "{name}".  The    *)
(* fields few_shot_input_i and few_shot_output_i carry their index i; the  *)
(* other tokens carry -1.                                                  *)
(***************************************************************************)
Tok(kind, name, idx) == [kind |-> kind, name |-> name, idx |-> idx]
Lit(s) == Tok("lit", s, -1)
NL == Tok("nl", "\n", -1)
Field(name) == Tok("field", name, -1)
FieldAt(name, i) == Tok("field", name, i)
Escaped(name) == Tok("escaped", name, -1)
InstructionsMarker == Tok("marker", "<document_level_instructions_placeholder>", -1)

\* lines 11-52: the header, with its mention of <instructions></instructions>
\* and the escaped braces of its example
PROMPT_DEFAULT_HEADER ==
    <<Lit("You are an AI assistant ..."), NL,
      Lit("If provided, you must also follow the additional instructions in "),
      Lit("<instructions>"), Lit("</instructions>"), Lit("."), NL,
      Lit("<example>"), NL,
      Lit("<json>"), NL, Escaped("\n    \"customer_name\": ...\n"), NL, Lit("</json>"), NL,
      Lit("</example>"), NL>>

\* lines 55-67
PROMPT_DEFAULT_TAIL ==
    <<Lit("Document:"), NL, Lit("<document>"), NL, Field("document"), NL,
      Lit("</document>"), NL, NL,
      Lit("Attributes to be extracted:"), NL, Lit("<attributes>"), NL,
      Field("attributes"), NL, Lit("</attributes>"), NL, NL,
      InstructionsMarker, NL, NL,
      Lit("Output:")>>

\* lines 70-87
PROMPT_FEW_SHOT ==
    <<Lit("<example>"), NL, Lit("Document:"), NL, Lit("<document>"), NL,
      Field("few_shot_input_placeholder"), NL, Lit("</document>"), NL, NL,
      Lit("Attributes to be extracted:"), NL, Lit("<attributes>"), NL,
      Escaped("attributes"), NL, Lit("</attributes>"), NL, NL,
      InstructionsMarker, NL, NL,
      Lit("Output:"), NL, Field("few_shot_output_placeholder"), NL,
      Lit("</example>"), NL, NL>>

\* lines 89-93
PROMPT_INSTRUCTIONS ==
    <<Lit("You must follow these additional instructions:"), NL,
      Lit("<instructions>"), NL, Field("instructions"), NL,
      Lit("</instructions>"), NL>>

\* lines 121-124: PROMPT_FEW_SHOT.format(few_shot_input_placeholder =
\* "{few_shot_input_i}", few_shot_output_placeholder = "{few_shot_output_i}"):
\* the two fields become the text of a field of the template, an escaped
\* brace pair becomes single braces
FormatFewShot(i) ==
    [j \in 1..Len(PROMPT_FEW_SHOT) |->
        LET t == PROMPT_FEW_SHOT[j]
        IN  IF t = Field("few_shot_input_placeholder") THEN FieldAt("few_shot_input", i)
            ELSE IF t = Field("few_shot_output_placeholder") THEN FieldAt("few_shot_output", i)
            ELSE IF t.kind = "escaped" THEN Field(t.name)
            ELSE t]

\* s[j+1..j+Len(pat)] = pat
MatchesAt(s, j, pat) ==
    /\ j + Len(pat) <= Len(s)
    /\ \A n \in 1..Len(pat) : s[j + n] = pat[n]

\* str.replace(pat, rep) for a non-empty pat: every non-overlapping
\* occurrence, left to right
RECURSIVE Replace(_, _, _)
Replace(s, pat, rep) ==
    IF \A j \in 0..Len(s) : ~MatchesAt(s, j, pat) THEN s
    ELSE LET first == CHOOSE j \in 0..Len(s) :
                         /\ MatchesAt(s, j, pat)
                         /\ \A n \in 0..(j - 1) : ~MatchesAt(s, n, pat)
         IN  SubSeq(s, 1, first) \o rep
                \o Replace(SubSeq(s, first + Len(pat) + 1, Len(s)), pat, rep)

\* the instructions of a request, as characters
Whitespace == {" ", "\n", "\t"}
InstructionTexts ==
    {<<>>, <<" ">>, <<"\n", " ">>, <<"\t">>, <<"B", "e">>, <<" ", "x", " ">>}

\* bool(instructions), without the strip
IsNonEmpty(s) == s /= <<>>

\* bool(instructions.strip())
StripIsTruthy(s) == \E j \in 1..Len(s) : s[j] \notin Whitespace

\* an entry of input_variables
Variable(name) == [name |-> name, idx |-> -1]
VariableAt(name, i) == [name |-> name, idx |-> i]

\* `input_variables += "instructions"`: a list extended by a string takes
\* its characters, one entry each
CharsOfInstructions ==
    <<"i", "n", "s", "t", "r", "u", "c", "t", "i", "o", "n", "s">>
ExtendedByInstructions(input) ==
    input \o [j \in 1..Len(CharsOfInstructions) |-> Variable(CharsOfInstructions[j])]

\* lines 115-116, one iteration
LoadDeclareFewShot ==
    /\ lpc = "declare"
    /\ li < num_few_shots
    /\ input_variables' = input_variables
            \o <<VariableAt("few_shot_input", li), VariableAt("few_shot_output", li)>>
    /\ li' = li + 1
    /\ UNCHANGED <<num_few_shots, instructions, prompt, lpc>>
    /\ UNCHANGED notPrompt

\* line 119
LoadHeader ==
    /\ lpc = "declare"
    /\ li = num_few_shots
    /\ prompt' = PROMPT_DEFAULT_HEADER
    /\ li' = 0
    /\ lpc' = "few_shots"
    /\ UNCHANGED <<num_few_shots, instructions, input_variables>>
    /\ UNCHANGED notPrompt

\* lines 120-124, one iteration
LoadFewShot ==
    /\ lpc = "few_shots"
    /\ li < num_few_shots
    /\ prompt' = prompt \o FormatFewShot(li)
    /\ li' = li + 1
    /\ UNCHANGED <<num_few_shots, instructions, input_variables, lpc>>
    /\ UNCHANGED notPrompt

\* line 125
LoadTail ==
    /\ lpc = "few_shots"
    /\ li = num_few_shots
    /\ prompt' = prompt \o PROMPT_DEFAULT_TAIL
    /\ lpc' = "instructions"
    /\ UNCHANGED <<num_few_shots, instructions, input_variables, li>>
    /\ UNCHANGED notPrompt

\* lines 128-133 and 137-140
LoadWithInstructions ==
    /\ lpc = "instructions"
    /\ StripIsTruthy(instructions)
    /\ prompt' = Replace(prompt, <<InstructionsMarker>>, PROMPT_INSTRUCTIONS)
    /\ input_variables' = ExtendedByInstructions(input_variables)
    /\ lpc' = "returned"
    /\ UNCHANGED <<num_few_shots, instructions, li>>
    /\ UNCHANGED notPrompt

\* lines 134-140
LoadWithoutInstructions ==
    /\ lpc = "instructions"
    /\ ~StripIsTruthy(instructions)
    /\ prompt' = Replace(prompt, <<NL, InstructionsMarker, NL>>, <<NL>>)
    /\ lpc' = "returned"
    /\ UNCHANGED <<num_few_shots, instructions, input_variables, li>>
    /\ UNCHANGED notPrompt

(***************************************************************************)
(* Result persistence: lines 171-198 of the multimodal handler (the text   *)
(* handler's lines 163-191 are the same with body["file_key"]), from the   *)
(* model's response on.                                                    *)
(*                                                                         *)
(* A file key "dir/.../stem.ext" is its directories, its stem and its      *)
(* extension (with the dot, "" when it has none).  A key text is the       *)
(* sequence of its pieces.                                                 *)
(***************************************************************************)
PREFIX_ATTRIBUTES == "attributes"

Directories == {"originals", "sub"}
Extensions == {".txt", ".pdf", ".png", ".jpg", ".TXT", ""}
FileKeys ==
    [dirs : UNION {[1..n -> Directories] : n \in 0..MaxDirs},
     stem : {"claim", "c.v2"},
     ext : Extensions]

\* the pieces of "d1/d2/"
RECURSIVE DirText(_)
DirText(dirs) == IF dirs = <<>> THEN <<>> ELSE <<Head(dirs), "/">> \o DirText(Tail(dirs))

\* the text of a file key
KeyText(k) == DirText(k.dirs) \o <<k.stem>> \o (IF k.ext = "" THEN <<>> ELSE <<k.ext>>)

\* key.split('/', 1)[-1]: the text after the first "/", or all of it
AfterFirstSlash(k) == IF k.dirs = <<>> THEN k ELSE [k EXCEPT !.dirs = Tail(@)]

\* str.removesuffix('.txt')
RemoveSuffixTxt(k) == IF k.ext = ".txt" THEN [k EXCEPT !.ext = ""] ELSE k

\* line 190: f"{PREFIX_ATTRIBUTES}/{body['file_name'].split('/', 1)[-1].removesuffix('.txt')}.json"
ArtifactKey(k) ==
    <<PREFIX_ATTRIBUTES, "/">> \o KeyText(RemoveSuffixTxt(AfterFirstSlash(k))) \o <<".json">>

\* json.dumps raises TypeError on a set
RECURSIVE JsonSerializable(_)
JsonSerializable(v) ==
    /\ v.kind /= "set"
    /\ \A j \in 1..Len(v.items) : JsonSerializable(v.items[j])

\* json.dumps(obj): a text, not the object
JsonDumps(obj) == [json |-> obj]

\* lines 171-175: the mapping parsed, or {} when parse_json_string raises
ParsedOrEmpty(t) == IF parse_json_string(t).ok THEN parse_json_string(t).val ELSE EmptyDict

\* what the model answers
ResponseTexts ==
    {<<"<json>", "{", "\"a\"", ":", "1", "}", "</json>">>,
     <<"w", "ws", "w">>,
     <<"<json>", "\"a\"", "</json>">>}

\* lines 171-176
PersistParse ==
    /\ spc = "Parsing"
    /\ response_json' = ParsedOrEmpty(response)
    /\ spc' = "Dumping"
    /\ UNCHANGED <<file_key, response, stored, returned>>
    /\ UNCHANGED notPersist

\* lines 178-192: json.dumps and put_object
PersistPut ==
    /\ spc = "Dumping"
    /\ JsonSerializable(response_json)
    /\ stored' = [Key |-> ArtifactKey(file_key),
                  ContentType |-> "application/json",
                  Body |-> JsonDumps([answer |-> response_json,
                                      raw_answer |-> response,
                                      file_key |-> KeyText(file_key),
                                      original_file_name |-> KeyText(file_key)])]
    /\ spc' = "Stored"
    /\ UNCHANGED <<file_key, response, response_json, returned>>
    /\ UNCHANGED notPersist

\* line 178: json.dumps raises TypeError
PersistDumpRaise ==
    /\ spc = "Dumping"
    /\ ~JsonSerializable(response_json)
    /\ spc' = "Failed"
    /\ UNCHANGED <<file_key, response, response_json, stored, returned>>
    /\ UNCHANGED notPersist

\* lines 194-198
PersistReturn ==
    /\ spc = "Stored"
    /\ returned' = [statusCode |-> 200,
                    headers |-> [ContentType |-> "application/json"],
                    body |-> stored.Body]
    /\ spc' = "Done"
    /\ UNCHANGED <<file_key, response, response_json, stored>>
    /\ UNCHANGED notPersist

(***************************************************************************)
(* The text handler from the truncated document on: lines 149-155 of       *)
(* extract_attributes.py, the values handed to the prompt template.        *)
(***************************************************************************)
\* line 149
FixedAttributesText == <<"claimer name, car model, accident description">>

\* lines 149-155; instructions is body.get("instructions", "")
TextSupplyVariables ==
    /\ handler = "text"
    /\ hpc = "Supply"
    /\ attributes_str' = FixedAttributesText
    /\ \E ins \in InstructionTexts :
          prompt_variables' =
              IF StripIsTruthy(ins)
              THEN [attributes |-> attributes_str', instructions |-> ins]
              ELSE [attributes |-> attributes_str']
    /\ hpc' = "Invoke"
    /\ UNCHANGED <<handler, GENERATOR_CONFIG, body, llm_answer, model_params, error, served>>
    /\ UNCHANGED notTextHandler

(***************************************************************************)
(* Document ingestion: run_textract.py and read_office.py.  A file name is *)
(* the sequence of its pieces, "/" and "." being pieces of their own.      *)
(***************************************************************************)
PREFIX_PROCESSED == "processed"

IngestFileNames ==
    {<<"originals", "/", "report", ".", "v1", ".", "pdf">>,
     <<"originals", "/", "report", ".", "v2", ".", "pdf">>,
     <<"originals", "/", "x", ".", "png">>,
     <<"originals", "/", "x", ".", "docx">>,
     <<"originals", "/", "notes", ".", "txt">>}

\* tabulate_api.py lines 42-46, handed over as environment variables
OfficeExtensions == {"ppt", "pptx", "doc", "docx", "xls", "xlsx", "html", "htm", "md", "markdown"}

\* str(self.use_table), tabulate_api.py line 333
PyStr(b) == IF b THEN "True" ELSE "False"

\* the truth value of a str: it is not empty
Truthy(str) == str /= ""

\* file_name.split('/', 1)[-1]
SplitSlashLast(name) ==
    IF Has(name, "/") THEN SubSeq(name, IndexOf(name, "/") + 1, Len(name)) ELSE name

\* s.rsplit('.')[0]: no maxsplit, so the text before the first "."
RsplitDotFirst(s) == IF Has(s, ".") THEN SubSeq(s, 1, IndexOf(s, ".") - 1) ELSE s

\* run_textract.py line 64, read_office.py line 74
ProcessedKey(name) ==
    <<PREFIX_PROCESSED, "/">> \o RsplitDotFirst(SplitSlashLast(name)) \o <<".txt">>

\* file_name.endswith(".txt")
EndsWithTxt(name) ==
    Len(name) >= 2 /\ name[Len(name) - 1] = "." /\ name[Len(name)] = "txt"

\* pathlib.Path(file_name).suffix, without its dot
Suffix(name) == IF Has(SplitSlashLast(name), ".") THEN name[Len(name)] ELSE ""

\* the text of a file: what extraction or reading gives for it
TextOf(name) == [text_of |-> name, cleaned |-> FALSE]

\* utils.py lines 33-59
clean_text_snippet(t) == [t EXCEPT !.cleaned = TRUE]

HasObject(objs, key) == \E o \in objs : o.key = key

\* utils.py lines 62-102: the cleaned text of the processed file, or None
get_document_text(objs, key) ==
    IF HasObject(objs, key)
    THEN clean_text_snippet((CHOOSE o \in objs : o.key = key).body)
    ELSE None

\* S3_CLIENT.put_object(Body=b, Bucket=S3_BUCKET, Key=key)
PutObject(objs, key, b) == {o \in objs : o.key /= key} \cup {[key |-> key, body |-> b]}

\* the tables Textract may find in a document when TABLES is requested
TableTitles == {"Damages"}

\* run_textract.py lines 99-100
TableKey(name, title) ==
    LET file_key_ == ProcessedKey(name)
    IN  SubSeq(file_key_, 1, Len(file_key_) - 1) \o <<"/", title, ".csv">>

\* run_textract.py lines 111-116: the keys under table_prefix/ that end in csv
ListCsv(objs, name) ==
    LET table_prefix == SubSeq(ProcessedKey(name), 1, Len(ProcessedKey(name)) - 1)
                            \o <<"/">>
    IN  {o.key : o \in {q \in objs :
                           /\ Len(q.key) > Len(table_prefix)
                           /\ SubSeq(q.key, 1, Len(table_prefix)) = table_prefix
                           /\ q.key[Len(q.key)] = ".csv"}}

\* lines 53-73 of run_textract.py, 65-82 of read_office.py: the request is
\* parsed and the processed file looked up
IngestLookup ==
    /\ ipc = "idle"
    /\ ingests < MaxIngests
    /\ \E s \in {"ocr", "office"}, name \in IngestFileNames :
          /\ stage' = s
          /\ file_name' = name
          /\ doc_text' = get_document_text(objects, ProcessedKey(name))
    /\ ingests' = ingests + 1
    /\ features' = {}
    /\ csv_tables' = {}
    /\ listed' = FALSE
    /\ skipped' = FALSE
    /\ ipc' = "looked"
    /\ UNCHANGED <<use_table, USE_TABLE, objects>>
    /\ UNCHANGED notIngest

\* run_textract.py lines 76-81: a TXT file is read and stored as processed
OcrReadTxt ==
    /\ ipc = "looked"
    /\ stage = "ocr"
    /\ doc_text = None
    /\ EndsWithTxt(file_name)
    /\ doc_text' = TextOf(file_name)
    /\ objects' = PutObject(objects, ProcessedKey(file_name), doc_text')
    /\ ipc' = "cached"
    /\ UNCHANGED <<use_table, USE_TABLE, stage, file_name, features, csv_tables, listed,
                   skipped, ingests>>
    /\ UNCHANGED notIngest

\* run_textract.py line 76 when there is nothing to read
OcrSkipTxt ==
    /\ ipc = "looked"
    /\ stage = "ocr"
    /\ doc_text /= None \/ ~EndsWithTxt(file_name)
    /\ ipc' = "cached"
    /\ skipped' = (doc_text /= None)
    /\ UNCHANGED <<use_table, USE_TABLE, objects, stage, file_name, doc_text, features,
                   csv_tables, listed, ingests>>
    /\ UNCHANGED notIngest

\* run_textract.py lines 84-105: Textract runs, the text and tables are stored
OcrTextract ==
    /\ ipc = "cached"
    /\ stage = "ocr"
    /\ doc_text = None
    /\ features' = IF ~Truthy(USE_TABLE) THEN {"LAYOUT"} ELSE {"TABLES", "LAYOUT"}
    /\ doc_text' = TextOf(file_name)
    /\ \E found \in SUBSET TableTitles :
          /\ "TABLES" \notin features' => found = {}
          /\ csv_tables' = {TableKey(file_name, title) : title \in found}
          /\ objects' = PutObject(objects, ProcessedKey(file_name), doc_text')
                           \cup {[key |-> k, body |-> TextOf(k)] : k \in csv_tables'}
    /\ ipc' = "returned"
    /\ UNCHANGED <<use_table, USE_TABLE, stage, file_name, listed, skipped, ingests>>
    /\ UNCHANGED notIngest

\* run_textract.py lines 108-118: the processed text is used
OcrCached ==
    /\ ipc = "cached"
    /\ stage = "ocr"
    /\ doc_text /= None
    /\ listed' = Truthy(USE_TABLE)
    /\ csv_tables' = IF Truthy(USE_TABLE) THEN ListCsv(objects, file_name) ELSE {}
    /\ ipc' = "returned"
    /\ UNCHANGED <<use_table, USE_TABLE, objects, stage, file_name, doc_text, features,
                   skipped, ingests>>
    /\ UNCHANGED notIngest

\* read_office.py lines 84-121: the document is loaded and its text stored
OfficeExtract ==
    /\ ipc = "looked"
    /\ stage = "office"
    /\ doc_text = None
    /\ Suffix(file_name) \in OfficeExtensions
    /\ doc_text' = TextOf(file_name)
    /\ objects' = PutObject(objects, ProcessedKey(file_name), doc_text')
    /\ ipc' = "returned"
    /\ UNCHANGED <<use_table, USE_TABLE, stage, file_name, features, csv_tables, listed,
                   skipped, ingests>>
    /\ UNCHANGED notIngest

\* read_office.py line 106: no branch of lines 95-104 bound `loader`
OfficeRaise ==
    /\ ipc = "looked"
    /\ stage = "office"
    /\ doc_text = None
    /\ Suffix(file_name) \notin OfficeExtensions
    /\ ipc' = "raised"
    /\ UNCHANGED <<use_table, USE_TABLE, objects, stage, file_name, doc_text, features,
                   csv_tables, listed, skipped, ingests>>
    /\ UNCHANGED notIngest

\* read_office.py lines 125-126: the file is already processed
OfficeCached ==
    /\ ipc = "looked"
    /\ stage = "office"
    /\ doc_text /= None
    /\ skipped' = TRUE
    /\ ipc' = "returned"
    /\ UNCHANGED <<use_table, USE_TABLE, objects, stage, file_name, doc_text, features,
                   csv_tables, listed, ingests>>
    /\ UNCHANGED notIngest

\* the handler returns or its exception leaves it; the next request may come
IngestReturn ==
    /\ ipc \in {"returned", "raised"}
    /\ ipc' = "idle"
    /\ UNCHANGED <<use_table, USE_TABLE, objects, stage, file_name, doc_text, features,
                   csv_tables, listed, skipped, ingests>>
    /\ UNCHANGED notIngest

(***************************************************************************)
(* The three extractions of the <json>...</json> span.  A raw answer is a  *)
(* sequence of pieces: the two delimiters, and pieces of one character     *)
(* each ("ws" is one newline).                                             *)
(***************************************************************************)
SpanLex == {"<json>", "</json>", "ws", "{", "}"}
RawAnswers == UNION {[1..n -> SpanLex] : n \in 0..MaxAnswerLen}

Span(s) == [raised |-> "none", span |-> s]
SpanRaised(e) == [raised |-> e, span |-> <<>>]

\* the index of the first "</json>" after position i, 0 when there is none
ClosingAfter(s, i) ==
    IF \E j \in (i + 1)..Len(s) : s[j] = "</json>"
    THEN CHOOSE j \in (i + 1)..Len(s) :
             s[j] = "</json>" /\ \A h \in (i + 1)..(j - 1) : s[h] /= "</json>"
    ELSE 0

\* substr.replace("\n", "")
RemoveNewlines(s) == SelectSeq(s, LAMBDA x : x /= "ws")

\* parser.py lines 18-21
ParserSpan(s) == Span(InnerSpan(s))

\* prompt_summary.py lines 68-69: ans[ans.index("<json>")+7:ans.index("</json>")]
\* with the newlines removed.  "<json>" has 6 characters: the slice starts
\* one character after it, inside the piece that follows.
SummarySpan(s) ==
    IF ~Has(s, "<json>") \/ ~Has(s, "</json>") THEN SpanRaised("ValueError")
    ELSE LET open == IndexOf(s, "<json>")
             close == IndexOf(s, "</json>")
         IN  IF close <= open + 1 THEN Span(<<>>)
             ELSE Span(RemoveNewlines(
                      (IF s[open + 1] = "<json>" THEN <<"json>">> ELSE <<>>)
                          \o SubSeq(s, open + 2, close - 1)))

\* api.py lines 95-96: groups[2] of the lazy search, TypeError on no match
FrontSpan(s) ==
    IF ~Has(s, "<json>") \/ ClosingAfter(s, IndexOf(s, "<json>")) = 0
    THEN SpanRaised("TypeError")
    ELSE Span(SubSeq(s, IndexOf(s, "<json>") + 1,
                     ClosingAfter(s, IndexOf(s, "<json>")) - 1))

ExtractParser ==
    /\ parser_span = None
    /\ parser_span' = ParserSpan(raw_answer)
    /\ UNCHANGED <<raw_answer, summary_span, front_span>>
    /\ UNCHANGED notSpan

ExtractSummary ==
    /\ summary_span = None
    /\ summary_span' = SummarySpan(raw_answer)
    /\ UNCHANGED <<raw_answer, parser_span, front_span>>
    /\ UNCHANGED notSpan

ExtractFront ==
    /\ front_span = None
    /\ front_span' = FrontSpan(raw_answer)
    /\ UNCHANGED <<raw_answer, parser_span, summary_span>>
    /\ UNCHANGED notSpan

(***************************************************************************)
(* Status polling: invoke_step_function (api.py) and run_tabulate_api      *)
(* (demo/utils.py).                                                        *)
(***************************************************************************)
TerminalStatuses == {"SUCCEEDED", "FAILED", "TIMED_OUT", "ABORTED"}

\* "k" is the text of the five entries carOwnerName ... finalClaimSummary
PollOutputs ==
    {<<"<json>", "ws", "{", "k", "}", "ws", "</json>">>,
     <<"<json>", "{", "k", "}", "</json>">>,
     <<"<json>", "{", "}", "</json>">>,
     <<"<json>", "{", "k", "</json>">>,
     <<"{", "k", "}">>}

\* api.py lines 95-113: the search, json.loads and the five key lookups
FrontParse(raw) ==
    IF FrontSpan(raw).raised /= "none" THEN FrontSpan(raw).raised
    ELSE IF RemoveNewlines(FrontSpan(raw).span) = <<"{", "k", "}">> THEN "none"
    ELSE IF RemoveNewlines(FrontSpan(raw).span) = <<"{", "}">> THEN "KeyError"
    ELSE "JSONDecodeError"

\* the execution ends at the workflow service
ExecutionEnds ==
    /\ execution_status = "RUNNING"
    /\ execution_status' \in TerminalStatuses
    /\ UNCHANGED <<poller, output_raw, status, qpc>>
    /\ UNCHANGED notPoll

\* api.py lines 83-86, utils.py lines 93-96: sleep, then describe_execution
PollDescribe ==
    /\ qpc = "sleep"
    /\ status' = execution_status
    /\ qpc' = "check"
    /\ UNCHANGED <<poller, execution_status, output_raw>>
    /\ UNCHANGED notPoll

\* api.py lines 89-90 (break), utils.py lines 100-101 (raise)
PollFailed ==
    /\ qpc = "check"
    /\ status = "FAILED"
    /\ qpc' = IF poller = "front" THEN "done" ELSE "raised"
    /\ UNCHANGED <<poller, execution_status, output_raw, status>>
    /\ UNCHANGED notPoll

\* api.py lines 92-138, utils.py lines 103-109
PollSucceeded ==
    /\ qpc = "check"
    /\ status = "SUCCEEDED"
    /\ qpc' = IF poller = "front" /\ FrontParse(output_raw) /= "none"
              THEN "raised" ELSE "done"
    /\ UNCHANGED <<poller, execution_status, output_raw, status>>
    /\ UNCHANGED notPoll

\* neither test holds: the `while True` loop goes round
PollAgain ==
    /\ qpc = "check"
    /\ status \notin {"FAILED", "SUCCEEDED"}
    /\ qpc' = "sleep"
    /\ UNCHANGED <<poller, execution_status, output_raw, status>>
    /\ UNCHANGED notPoll

(***************************************************************************)
(* Specifications, one per component.                                      *)
(***************************************************************************)
\* a call of truncate_document on a document and its token counts
TruncInit ==
    /\ document \in Documents
    /\ token_count_total \in 0..MaxTokenCount
    /\ num_token_prompt \in {0, 2}
    /\ max_token_model \in {1, 3}
    /\ cpt \in {1, 4}
    /\ tpc = "sweep"
    /\ cuts = 0
    /\ truncated_doc = <<>>
    \* parse_json_string is not called
    /\ text = <<>>
    /\ source = NoValue
    /\ ppc = "idle"
    /\ result = NoValue
    \* compile_tables is not called
    /\ tables = <<>>
    /\ ti = 0
    /\ all_tables = <<>>
    /\ last_title = ""
    /\ last_valid_table_columns = <<>>
    /\ cpc = "idle"
    \* no handler runs
    /\ handler = "none"
    /\ GENERATOR_CONFIG = GeneratorConfigInit
    /\ hpc = "Idle"
    /\ body = <<>>
    /\ llm_answer = <<>>
    /\ model_params = NoParams
    /\ attributes_str = <<>>
    /\ error = "none"
    /\ served = 0
    \* create_human_message_with_imgs is not called
    /\ file = None
    /\ max_pages = 0
    /\ prompt_text = ""
    /\ mpc = "idle"
    /\ message = <<>>
    \* load_prompt_template is not called
    /\ num_few_shots = 0
    /\ instructions = <<>>
    /\ prompt = <<>>
    /\ input_variables = <<>>
    /\ li = 0
    /\ lpc = "idle"
    \* no result is persisted
    /\ file_key = None
    /\ response = <<>>
    /\ response_json = NoValue
    /\ stored = None
    /\ returned = None
    /\ spc = "idle"
    \* no value is handed to a prompt template
    /\ prompt_variables = None
    \* no document is ingested
    /\ use_table = TRUE
    /\ USE_TABLE = "True"
    /\ objects = {}
    /\ stage = "none"
    /\ file_name = <<>>
    /\ doc_text = None
    /\ features = {}
    /\ csv_tables = {}
    /\ listed = FALSE
    /\ skipped = FALSE
    /\ ipc = "off"
    /\ ingests = 0
    \* no span is extracted
    /\ raw_answer = <<>>
    /\ parser_span = None
    /\ summary_span = None
    /\ front_span = None
    \* no execution is polled
    /\ poller = "none"
    /\ execution_status = "none"
    /\ output_raw = <<>>
    /\ status = "none"
    /\ qpc = "off"

TruncNext == TruncStep
SpecTrunc ==
    TruncInit /\ [][TruncNext]_vars

\* a call of parse_json_string on a wrapped dumps(V) or on a free text
ParserInit ==
    /\ \/ \E b \in ProseBefore, v \in JsonValues(MaxDepth), a \in ProseAfter :
            text = Wrapped(b, v, a) /\ source = v
       \/ text \in FreeTexts \cup KeyValueTexts /\ source = NoValue
    /\ ppc = "call"
    /\ result = NoValue
    \* truncate_document is not called
    /\ document = <<>>
    /\ token_count_total = 0
    /\ num_token_prompt = 0
    /\ max_token_model = 0
    /\ cpt = 1
    /\ tpc = "idle"
    /\ cuts = 0
    /\ truncated_doc = <<>>
    \* compile_tables is not called
    /\ tables = <<>>
    /\ ti = 0
    /\ all_tables = <<>>
    /\ last_title = ""
    /\ last_valid_table_columns = <<>>
    /\ cpc = "idle"
    \* no handler runs
    /\ handler = "none"
    /\ GENERATOR_CONFIG = GeneratorConfigInit
    /\ hpc = "Idle"
    /\ body = <<>>
    /\ llm_answer = <<>>
    /\ model_params = NoParams
    /\ attributes_str = <<>>
    /\ error = "none"
    /\ served = 0
    \* create_human_message_with_imgs is not called
    /\ file = None
    /\ max_pages = 0
    /\ prompt_text = ""
    /\ mpc = "idle"
    /\ message = <<>>
    \* load_prompt_template is not called
    /\ num_few_shots = 0
    /\ instructions = <<>>
    /\ prompt = <<>>
    /\ input_variables = <<>>
    /\ li = 0
    /\ lpc = "idle"
    \* no result is persisted
    /\ file_key = None
    /\ response = <<>>
    /\ response_json = NoValue
    /\ stored = None
    /\ returned = None
    /\ spc = "idle"
    \* no value is handed to a prompt template
    /\ prompt_variables = None
    \* no document is ingested
    /\ use_table = TRUE
    /\ USE_TABLE = "True"
    /\ objects = {}
    /\ stage = "none"
    /\ file_name = <<>>
    /\ doc_text = None
    /\ features = {}
    /\ csv_tables = {}
    /\ listed = FALSE
    /\ skipped = FALSE
    /\ ipc = "off"
    /\ ingests = 0
    \* no span is extracted
    /\ raw_answer = <<>>
    /\ parser_span = None
    /\ summary_span = None
    /\ front_span = None
    \* no execution is polled
    /\ poller = "none"
    /\ execution_status = "none"
    /\ output_raw = <<>>
    /\ status = "none"
    /\ qpc = "off"

ParserNext == ParseReturn \/ ParseRaise
SpecParser ==
    ParserInit /\ [][ParserNext]_vars

\* a call of compile_tables on a document of up to MaxFragments tables
TablesInit ==
    /\ tables \in UNION {[1..n -> Fragments] : n \in 0..MaxFragments}
    /\ ti = 0
    /\ all_tables = <<>>
    /\ last_title = ""
    /\ last_valid_table_columns = <<>>
    /\ cpc = "loop"
    \* truncate_document is not called
    /\ document = <<>>
    /\ token_count_total = 0
    /\ num_token_prompt = 0
    /\ max_token_model = 0
    /\ cpt = 1
    /\ tpc = "idle"
    /\ cuts = 0
    /\ truncated_doc = <<>>
    \* parse_json_string is not called
    /\ text = <<>>
    /\ source = NoValue
    /\ ppc = "idle"
    /\ result = NoValue
    \* no handler runs
    /\ handler = "none"
    /\ GENERATOR_CONFIG = GeneratorConfigInit
    /\ hpc = "Idle"
    /\ body = <<>>
    /\ llm_answer = <<>>
    /\ model_params = NoParams
    /\ attributes_str = <<>>
    /\ error = "none"
    /\ served = 0
    \* create_human_message_with_imgs is not called
    /\ file = None
    /\ max_pages = 0
    /\ prompt_text = ""
    /\ mpc = "idle"
    /\ message = <<>>
    \* load_prompt_template is not called
    /\ num_few_shots = 0
    /\ instructions = <<>>
    /\ prompt = <<>>
    /\ input_variables = <<>>
    /\ li = 0
    /\ lpc = "idle"
    \* no result is persisted
    /\ file_key = None
    /\ response = <<>>
    /\ response_json = NoValue
    /\ stored = None
    /\ returned = None
    /\ spc = "idle"
    \* no value is handed to a prompt template
    /\ prompt_variables = None
    \* no document is ingested
    /\ use_table = TRUE
    /\ USE_TABLE = "True"
    /\ objects = {}
    /\ stage = "none"
    /\ file_name = <<>>
    /\ doc_text = None
    /\ features = {}
    /\ csv_tables = {}
    /\ listed = FALSE
    /\ skipped = FALSE
    /\ ipc = "off"
    /\ ingests = 0
    \* no span is extracted
    /\ raw_answer = <<>>
    /\ parser_span = None
    /\ summary_span = None
    /\ front_span = None
    \* no execution is polled
    /\ poller = "none"
    /\ execution_status = "none"
    /\ output_raw = <<>>
    /\ status = "none"
    /\ qpc = "off"

TablesNext == CompileAppend \/ CompileCreate \/ CompileReturn
SpecTables ==
    TablesInit /\ [][TablesNext]_vars

\* a process with one of the two handlers loaded, before its first request
HandlerInit ==
    /\ handler \in {"text", "image"}
    /\ GENERATOR_CONFIG = GeneratorConfigInit
    /\ hpc = "Idle"
    /\ body = <<>>
    /\ llm_answer = <<>>
    /\ model_params = NoParams
    /\ attributes_str = <<>>
    /\ error = "none"
    /\ served = 0
    \* truncate_document is not called
    /\ document = <<>>
    /\ token_count_total = 0
    /\ num_token_prompt = 0
    /\ max_token_model = 0
    /\ cpt = 1
    /\ tpc = "idle"
    /\ cuts = 0
    /\ truncated_doc = <<>>
    \* parse_json_string is not called
    /\ text = <<>>
    /\ source = NoValue
    /\ ppc = "idle"
    /\ result = NoValue
    \* compile_tables is not called
    /\ tables = <<>>
    /\ ti = 0
    /\ all_tables = <<>>
    /\ last_title = ""
    /\ last_valid_table_columns = <<>>
    /\ cpc = "idle"
    \* create_human_message_with_imgs is not called
    /\ file = None
    /\ max_pages = 0
    /\ prompt_text = ""
    /\ mpc = "idle"
    /\ message = <<>>
    \* load_prompt_template is not called
    /\ num_few_shots = 0
    /\ instructions = <<>>
    /\ prompt = <<>>
    /\ input_variables = <<>>
    /\ li = 0
    /\ lpc = "idle"
    \* no result is persisted
    /\ file_key = None
    /\ response = <<>>
    /\ response_json = NoValue
    /\ stored = None
    /\ returned = None
    /\ spc = "idle"
    \* no value is handed to a prompt template
    /\ prompt_variables = None
    \* no document is ingested
    /\ use_table = TRUE
    /\ USE_TABLE = "True"
    /\ objects = {}
    /\ stage = "none"
    /\ file_name = <<>>
    /\ doc_text = None
    /\ features = {}
    /\ csv_tables = {}
    /\ listed = FALSE
    /\ skipped = FALSE
    /\ ipc = "off"
    /\ ingests = 0
    \* no span is extracted
    /\ raw_answer = <<>>
    /\ parser_span = None
    /\ summary_span = None
    /\ front_span = None
    \* no execution is polled
    /\ poller = "none"
    /\ execution_status = "none"
    /\ output_raw = <<>>
    /\ status = "none"
    /\ qpc = "off"

HandlerNext ==
    \/ Receive
    \/ TextLoadDocument
    \/ TextAdaptParams
    \/ TextBuildPrompt
    \/ TextTruncate
    \/ ImageAdaptParams
    \/ ImageFillPrompt
SpecHandler ==
    HandlerInit /\ [][HandlerNext]_vars

\* a call of create_human_message_with_imgs
PackInit ==
    /\ file \in Files
    /\ max_pages \in 0..MaxPages
    /\ prompt_text \in {"Extract attributes", ""}
    /\ mpc = "call"
    /\ message = <<>>
    \* truncate_document is not called
    /\ document = <<>>
    /\ token_count_total = 0
    /\ num_token_prompt = 0
    /\ max_token_model = 0
    /\ cpt = 1
    /\ tpc = "idle"
    /\ cuts = 0
    /\ truncated_doc = <<>>
    \* parse_json_string is not called
    /\ text = <<>>
    /\ source = NoValue
    /\ ppc = "idle"
    /\ result = NoValue
    \* compile_tables is not called
    /\ tables = <<>>
    /\ ti = 0
    /\ all_tables = <<>>
    /\ last_title = ""
    /\ last_valid_table_columns = <<>>
    /\ cpc = "idle"
    \* no handler runs
    /\ handler = "none"
    /\ GENERATOR_CONFIG = GeneratorConfigInit
    /\ hpc = "Idle"
    /\ body = <<>>
    /\ llm_answer = <<>>
    /\ model_params = NoParams
    /\ attributes_str = <<>>
    /\ error = "none"
    /\ served = 0
    \* load_prompt_template is not called
    /\ num_few_shots = 0
    /\ instructions = <<>>
    /\ prompt = <<>>
    /\ input_variables = <<>>
    /\ li = 0
    /\ lpc = "idle"
    \* no result is persisted
    /\ file_key = None
    /\ response = <<>>
    /\ response_json = NoValue
    /\ stored = None
    /\ returned = None
    /\ spc = "idle"
    \* no value is handed to a prompt template
    /\ prompt_variables = None
    \* no document is ingested
    /\ use_table = TRUE
    /\ USE_TABLE = "True"
    /\ objects = {}
    /\ stage = "none"
    /\ file_name = <<>>
    /\ doc_text = None
    /\ features = {}
    /\ csv_tables = {}
    /\ listed = FALSE
    /\ skipped = FALSE
    /\ ipc = "off"
    /\ ingests = 0
    \* no span is extracted
    /\ raw_answer = <<>>
    /\ parser_span = None
    /\ summary_span = None
    /\ front_span = None
    \* no execution is polled
    /\ poller = "none"
    /\ execution_status = "none"
    /\ output_raw = <<>>
    /\ status = "none"
    /\ qpc = "off"

PackNext == PackReturn \/ PackRaise
SpecPack ==
    PackInit /\ [][PackNext]_vars

\* a call of load_prompt_template; line 114 has run
PromptInit ==
    /\ num_few_shots \in 0..MaxFewShots
    /\ instructions \in InstructionTexts
    /\ prompt = <<>>
    /\ input_variables = <<Variable("document"), Variable("attributes")>>
    /\ li = 0
    /\ lpc = "declare"
    \* truncate_document is not called
    /\ document = <<>>
    /\ token_count_total = 0
    /\ num_token_prompt = 0
    /\ max_token_model = 0
    /\ cpt = 1
    /\ tpc = "idle"
    /\ cuts = 0
    /\ truncated_doc = <<>>
    \* parse_json_string is not called
    /\ text = <<>>
    /\ source = NoValue
    /\ ppc = "idle"
    /\ result = NoValue
    \* compile_tables is not called
    /\ tables = <<>>
    /\ ti = 0
    /\ all_tables = <<>>
    /\ last_title = ""
    /\ last_valid_table_columns = <<>>
    /\ cpc = "idle"
    \* no handler runs
    /\ handler = "none"
    /\ GENERATOR_CONFIG = GeneratorConfigInit
    /\ hpc = "Idle"
    /\ body = <<>>
    /\ llm_answer = <<>>
    /\ model_params = NoParams
    /\ attributes_str = <<>>
    /\ error = "none"
    /\ served = 0
    \* create_human_message_with_imgs is not called
    /\ file = None
    /\ max_pages = 0
    /\ prompt_text = ""
    /\ mpc = "idle"
    /\ message = <<>>
    \* no result is persisted
    /\ file_key = None
    /\ response = <<>>
    /\ response_json = NoValue
    /\ stored = None
    /\ returned = None
    /\ spc = "idle"
    \* no value is handed to a prompt template
    /\ prompt_variables = None
    \* no document is ingested
    /\ use_table = TRUE
    /\ USE_TABLE = "True"
    /\ objects = {}
    /\ stage = "none"
    /\ file_name = <<>>
    /\ doc_text = None
    /\ features = {}
    /\ csv_tables = {}
    /\ listed = FALSE
    /\ skipped = FALSE
    /\ ipc = "off"
    /\ ingests = 0
    \* no span is extracted
    /\ raw_answer = <<>>
    /\ parser_span = None
    /\ summary_span = None
    /\ front_span = None
    \* no execution is polled
    /\ poller = "none"
    /\ execution_status = "none"
    /\ output_raw = <<>>
    /\ status = "none"
    /\ qpc = "off"

PromptNext ==
    \/ LoadDeclareFewShot
    \/ LoadHeader
    \/ LoadFewShot
    \/ LoadTail
    \/ LoadWithInstructions
    \/ LoadWithoutInstructions
SpecPrompt ==
    PromptInit /\ [][PromptNext]_vars

\* the model has answered a request for the file file_key
PersistInit ==
    /\ file_key \in FileKeys
    /\ response \in ResponseTexts
    /\ response_json = NoValue
    /\ stored = None
    /\ returned = None
    /\ spc = "Parsing"
    \* truncate_document is not called
    /\ document = <<>>
    /\ token_count_total = 0
    /\ num_token_prompt = 0
    /\ max_token_model = 0
    /\ cpt = 1
    /\ tpc = "idle"
    /\ cuts = 0
    /\ truncated_doc = <<>>
    \* parse_json_string is not called
    /\ text = <<>>
    /\ source = NoValue
    /\ ppc = "idle"
    /\ result = NoValue
    \* compile_tables is not called
    /\ tables = <<>>
    /\ ti = 0
    /\ all_tables = <<>>
    /\ last_title = ""
    /\ last_valid_table_columns = <<>>
    /\ cpc = "idle"
    \* no handler runs
    /\ handler = "none"
    /\ GENERATOR_CONFIG = GeneratorConfigInit
    /\ hpc = "Idle"
    /\ body = <<>>
    /\ llm_answer = <<>>
    /\ model_params = NoParams
    /\ attributes_str = <<>>
    /\ error = "none"
    /\ served = 0
    \* create_human_message_with_imgs is not called
    /\ file = None
    /\ max_pages = 0
    /\ prompt_text = ""
    /\ mpc = "idle"
    /\ message = <<>>
    \* load_prompt_template is not called
    /\ num_few_shots = 0
    /\ instructions = <<>>
    /\ prompt = <<>>
    /\ input_variables = <<>>
    /\ li = 0
    /\ lpc = "idle"
    \* no value is handed to a prompt template
    /\ prompt_variables = None
    \* no document is ingested
    /\ use_table = TRUE
    /\ USE_TABLE = "True"
    /\ objects = {}
    /\ stage = "none"
    /\ file_name = <<>>
    /\ doc_text = None
    /\ features = {}
    /\ csv_tables = {}
    /\ listed = FALSE
    /\ skipped = FALSE
    /\ ipc = "off"
    /\ ingests = 0
    \* no span is extracted
    /\ raw_answer = <<>>
    /\ parser_span = None
    /\ summary_span = None
    /\ front_span = None
    \* no execution is polled
    /\ poller = "none"
    /\ execution_status = "none"
    /\ output_raw = <<>>
    /\ status = "none"
    /\ qpc = "off"

PersistNext == PersistParse \/ PersistPut \/ PersistDumpRaise \/ PersistReturn
SpecPersist ==
    PersistInit /\ [][PersistNext]_vars

\* the text handler has built the attributes text of a request (lines
\* 116-128) and holds the truncated document
SupplyInit ==
    /\ handler = "text"
    /\ body \in {r \in TextRequests : "document" \in r.given}
    /\ GENERATOR_CONFIG = Override(GeneratorConfigInit, body.model_params)
    /\ hpc = "Supply"
    /\ llm_answer \in Answers
    /\ model_params = get_model_params(body.model_params.model_id, GENERATOR_CONFIG)
    /\ attributes_str = AttributesStr(body.attributes)
    /\ error = "none"
    /\ served = 1
    /\ prompt_variables = None
    \* truncate_document is not called
    /\ document = <<>>
    /\ token_count_total = 0
    /\ num_token_prompt = 0
    /\ max_token_model = 0
    /\ cpt = 1
    /\ tpc = "idle"
    /\ cuts = 0
    /\ truncated_doc = <<>>
    \* parse_json_string is not called
    /\ text = <<>>
    /\ source = NoValue
    /\ ppc = "idle"
    /\ result = NoValue
    \* compile_tables is not called
    /\ tables = <<>>
    /\ ti = 0
    /\ all_tables = <<>>
    /\ last_title = ""
    /\ last_valid_table_columns = <<>>
    /\ cpc = "idle"
    \* create_human_message_with_imgs is not called
    /\ file = None
    /\ max_pages = 0
    /\ prompt_text = ""
    /\ mpc = "idle"
    /\ message = <<>>
    \* load_prompt_template is not called
    /\ num_few_shots = 0
    /\ instructions = <<>>
    /\ prompt = <<>>
    /\ input_variables = <<>>
    /\ li = 0
    /\ lpc = "idle"
    \* no result is persisted
    /\ file_key = None
    /\ response = <<>>
    /\ response_json = NoValue
    /\ stored = None
    /\ returned = None
    /\ spc = "idle"
    \* no document is ingested
    /\ use_table = TRUE
    /\ USE_TABLE = "True"
    /\ objects = {}
    /\ stage = "none"
    /\ file_name = <<>>
    /\ doc_text = None
    /\ features = {}
    /\ csv_tables = {}
    /\ listed = FALSE
    /\ skipped = FALSE
    /\ ipc = "off"
    /\ ingests = 0
    \* no span is extracted
    /\ raw_answer = <<>>
    /\ parser_span = None
    /\ summary_span = None
    /\ front_span = None
    \* no execution is polled
    /\ poller = "none"
    /\ execution_status = "none"
    /\ output_raw = <<>>
    /\ status = "none"
    /\ qpc = "off"

SupplyNext == TextSupplyVariables
SpecSupply ==
    SupplyInit /\ [][SupplyNext]_vars

\* a deployment with its toggle, an empty bucket, no request yet
IngestInit ==
    /\ use_table \in BOOLEAN
    /\ USE_TABLE = PyStr(use_table)
    /\ objects = {}
    /\ stage = "none"
    /\ file_name = <<>>
    /\ doc_text = None
    /\ features = {}
    /\ csv_tables = {}
    /\ listed = FALSE
    /\ skipped = FALSE
    /\ ipc = "idle"
    /\ ingests = 0
    \* truncate_document is not called
    /\ document = <<>>
    /\ token_count_total = 0
    /\ num_token_prompt = 0
    /\ max_token_model = 0
    /\ cpt = 1
    /\ tpc = "idle"
    /\ cuts = 0
    /\ truncated_doc = <<>>
    \* parse_json_string is not called
    /\ text = <<>>
    /\ source = NoValue
    /\ ppc = "idle"
    /\ result = NoValue
    \* compile_tables is not called
    /\ tables = <<>>
    /\ ti = 0
    /\ all_tables = <<>>
    /\ last_title = ""
    /\ last_valid_table_columns = <<>>
    /\ cpc = "idle"
    \* no handler runs
    /\ handler = "none"
    /\ GENERATOR_CONFIG = GeneratorConfigInit
    /\ hpc = "Idle"
    /\ body = <<>>
    /\ llm_answer = <<>>
    /\ model_params = NoParams
    /\ attributes_str = <<>>
    /\ error = "none"
    /\ served = 0
    \* create_human_message_with_imgs is not called
    /\ file = None
    /\ max_pages = 0
    /\ prompt_text = ""
    /\ mpc = "idle"
    /\ message = <<>>
    \* load_prompt_template is not called
    /\ num_few_shots = 0
    /\ instructions = <<>>
    /\ prompt = <<>>
    /\ input_variables = <<>>
    /\ li = 0
    /\ lpc = "idle"
    \* no result is persisted
    /\ file_key = None
    /\ response = <<>>
    /\ response_json = NoValue
    /\ stored = None
    /\ returned = None
    /\ spc = "idle"
    \* no value is handed to a prompt template
    /\ prompt_variables = None
    \* no span is extracted
    /\ raw_answer = <<>>
    /\ parser_span = None
    /\ summary_span = None
    /\ front_span = None
    \* no execution is polled
    /\ poller = "none"
    /\ execution_status = "none"
    /\ output_raw = <<>>
    /\ status = "none"
    /\ qpc = "off"

IngestNext ==
    \/ IngestLookup
    \/ OcrReadTxt
    \/ OcrSkipTxt
    \/ OcrTextract
    \/ OcrCached
    \/ OfficeExtract
    \/ OfficeRaise
    \/ OfficeCached
    \/ IngestReturn
SpecIngest ==
    IngestInit /\ [][IngestNext]_vars

\* a raw answer, no extraction applied yet
SpanInit ==
    /\ raw_answer \in RawAnswers
    /\ parser_span = None
    /\ summary_span = None
    /\ front_span = None
    \* truncate_document is not called
    /\ document = <<>>
    /\ token_count_total = 0
    /\ num_token_prompt = 0
    /\ max_token_model = 0
    /\ cpt = 1
    /\ tpc = "idle"
    /\ cuts = 0
    /\ truncated_doc = <<>>
    \* parse_json_string is not called
    /\ text = <<>>
    /\ source = NoValue
    /\ ppc = "idle"
    /\ result = NoValue
    \* compile_tables is not called
    /\ tables = <<>>
    /\ ti = 0
    /\ all_tables = <<>>
    /\ last_title = ""
    /\ last_valid_table_columns = <<>>
    /\ cpc = "idle"
    \* no handler runs
    /\ handler = "none"
    /\ GENERATOR_CONFIG = GeneratorConfigInit
    /\ hpc = "Idle"
    /\ body = <<>>
    /\ llm_answer = <<>>
    /\ model_params = NoParams
    /\ attributes_str = <<>>
    /\ error = "none"
    /\ served = 0
    \* create_human_message_with_imgs is not called
    /\ file = None
    /\ max_pages = 0
    /\ prompt_text = ""
    /\ mpc = "idle"
    /\ message = <<>>
    \* load_prompt_template is not called
    /\ num_few_shots = 0
    /\ instructions = <<>>
    /\ prompt = <<>>
    /\ input_variables = <<>>
    /\ li = 0
    /\ lpc = "idle"
    \* no result is persisted
    /\ file_key = None
    /\ response = <<>>
    /\ response_json = NoValue
    /\ stored = None
    /\ returned = None
    /\ spc = "idle"
    \* no value is handed to a prompt template
    /\ prompt_variables = None
    \* no document is ingested
    /\ use_table = TRUE
    /\ USE_TABLE = "True"
    /\ objects = {}
    /\ stage = "none"
    /\ file_name = <<>>
    /\ doc_text = None
    /\ features = {}
    /\ csv_tables = {}
    /\ listed = FALSE
    /\ skipped = FALSE
    /\ ipc = "off"
    /\ ingests = 0
    \* no execution is polled
    /\ poller = "none"
    /\ execution_status = "none"
    /\ output_raw = <<>>
    /\ status = "none"
    /\ qpc = "off"

SpanNext ==
    \/ ExtractParser
    \/ ExtractSummary
    \/ ExtractFront
SpecSpan ==
    SpanInit /\ [][SpanNext]_vars

\* after start_execution (api.py lines 76-80, utils.py lines 85-90)
PollInit ==
    /\ poller \in {"front", "demo"}
    /\ execution_status = "RUNNING"
    /\ output_raw \in PollOutputs
    /\ status = "none"
    /\ qpc = "sleep"
    \* truncate_document is not called
    /\ document = <<>>
    /\ token_count_total = 0
    /\ num_token_prompt = 0
    /\ max_token_model = 0
    /\ cpt = 1
    /\ tpc = "idle"
    /\ cuts = 0
    /\ truncated_doc = <<>>
    \* parse_json_string is not called
    /\ text = <<>>
    /\ source = NoValue
    /\ ppc = "idle"
    /\ result = NoValue
    \* compile_tables is not called
    /\ tables = <<>>
    /\ ti = 0
    /\ all_tables = <<>>
    /\ last_title = ""
    /\ last_valid_table_columns = <<>>
    /\ cpc = "idle"
    \* no handler runs
    /\ handler = "none"
    /\ GENERATOR_CONFIG = GeneratorConfigInit
    /\ hpc = "Idle"
    /\ body = <<>>
    /\ llm_answer = <<>>
    /\ model_params = NoParams
    /\ attributes_str = <<>>
    /\ error = "none"
    /\ served = 0
    \* create_human_message_with_imgs is not called
    /\ file = None
    /\ max_pages = 0
    /\ prompt_text = ""
    /\ mpc = "idle"
    /\ message = <<>>
    \* load_prompt_template is not called
    /\ num_few_shots = 0
    /\ instructions = <<>>
    /\ prompt = <<>>
    /\ input_variables = <<>>
    /\ li = 0
    /\ lpc = "idle"
    \* no result is persisted
    /\ file_key = None
    /\ response = <<>>
    /\ response_json = NoValue
    /\ stored = None
    /\ returned = None
    /\ spc = "idle"
    \* no value is handed to a prompt template
    /\ prompt_variables = None
    \* no document is ingested
    /\ use_table = TRUE
    /\ USE_TABLE = "True"
    /\ objects = {}
    /\ stage = "none"
    /\ file_name = <<>>
    /\ doc_text = None
    /\ features = {}
    /\ csv_tables = {}
    /\ listed = FALSE
    /\ skipped = FALSE
    /\ ipc = "off"
    /\ ingests = 0
    \* no span is extracted
    /\ raw_answer = <<>>
    /\ parser_span = None
    /\ summary_span = None
    /\ front_span = None

PollNext ==
    \/ ExecutionEnds
    \/ PollDescribe
    \/ PollFailed
    \/ PollSucceeded
    \/ PollAgain
SpecPoll ==
    PollInit /\ [][PollNext]_vars

\* the client's loop keeps running: each of its steps is taken when it stays enabled
SpecPollFair ==
    /\ SpecPoll
    /\ WF_vars(PollDescribe)
    /\ WF_vars(PollFailed)
    /\ WF_vars(PollSucceeded)
    /\ WF_vars(PollAgain)

(***************************************************************************)
(* Properties.                                                             *)
(***************************************************************************)
\* sub occurs in s as a contiguous run
Contains(s, sub) ==
    \E j \in 0..(Len(s) - Len(sub)) : \A n \in 1..Len(sub) : s[j + n] = sub[n]

\* C1 (Truncation no-op): whenever token_count_total <= max_token_model,
\* truncate_document returns the input document unchanged.
C1_TruncationNoOp ==
    (tpc = "returned" /\ token_count_total <= max_token_model)
        => truncated_doc = document

\* C2 (Parser round-trip): parsing prose + "<json>" + dumps(V) + "</json>" +
\* prose returns a value equal to V, for every JSON value V.
C2_ParserRoundTrip ==
    (ppc \in {"returned", "raised"} /\ source /= NoValue)
        => (ppc = "returned" /\ result = source)

\* the identity of the request being served
RequestModelId == body.model_params.model_id

C4_TruncationConvergence ==
    token_count_total > max_token_model
        => /\ cuts <= 40
           /\ tpc = "returned" => Contains(truncated_doc, MARKER)

\* the rows of fragments 1..k in document order
RECURSIVE RowsUpTo(_)
RowsUpTo(k) == IF k = 0 THEN <<>> ELSE RowsUpTo(k - 1) \o RowsOf(k)

\* the column labels are names, not the default positional labels
Named(columns) == columns /= DefaultColumns(Len(columns))

\* k >= 1 fragments with one explicit title and the same named columns, then
\* one fragment with a different explicit title and different columns
Scenario ==
    /\ Len(tables) >= 2
    /\ tables[1].title /= ""
    /\ Named(tables[1].columns)
    /\ \A j \in 1..(Len(tables) - 1) :
          /\ tables[j].title = tables[1].title
          /\ tables[j].columns = tables[1].columns
    /\ tables[Len(tables)].title \notin {"", tables[1].title}
    /\ tables[Len(tables)].columns /= tables[1].columns

\* exactly 2 logical tables: the rows of the k fragments in order, then the
\* rows of the last fragment alone
TwoTables ==
    /\ Len(all_tables) = 2
    /\ all_tables[1].rows = RowsUpTo(Len(tables) - 1)
    /\ all_tables[2].rows = RowsOf(Len(tables))

\* the titles the page titles and headers leave to the scenario: the first
\* fragment keeps its title unless all k lose theirs, and the last fragment
\* does not lose its title while carrying default labels of the same count
TitlesKept ==
    /\ tables[1].dup => \A j \in 1..(Len(tables) - 1) : tables[j].dup
    /\ ~ /\ tables[Len(tables)].dup
         /\ Len(tables[Len(tables)].columns) = Len(tables[1].columns)
         /\ ~Named(tables[Len(tables)].columns)

\* C5 as stated (Table reconciliation scenario): for k same-title,
\* same-column fragments followed by one fragment of a different title and
\* different columns, compile_tables returns exactly 2 tables, the first
\* with the rows of the k fragments in order, the second with the last
\* fragment's rows.
C5_ScenarioAsStated ==
    (cpc = "returned" /\ Scenario) => TwoTables

\* C5 (Table reconciliation scenario, with its proviso): in the scenario,
\* compile_tables returns the 2 tables exactly when the first fragment's
\* title is not discarded as a repeat of its page's title or header (unless
\* the titles of all k fragments are), and the last fragment is not one
\* whose title is discarded while it has default column labels of the same
\* count.
C5_Scenario ==
    (cpc = "returned" /\ Scenario) => (TwoTables <=> TitlesKept)

\* C5: the scenario with two fragments of the first table, reconciled
C5_Witness ==
    /\ cpc = "returned"
    /\ Scenario
    /\ Len(tables) = 3
    /\ tables[2].dup
    /\ TitlesKept
    /\ TwoTables

\* C6 (Parameter projection): for every supported identity the adapter
\* returns a mapping whose keys are exactly the target field names of the
\* vendor's declared mapping.
C6_ParameterProjection ==
    (hpc /= "Idle" /\ VendorPrefix(RequestModelId) \in SupportedVendors)
        => /\ hpc \in {"BuildPrompt", "FillPrompt"}
                => DOMAIN model_params
                       = Targets(VendorMapping(VendorPrefix(RequestModelId)))
           /\ (handler = "image" /\ hpc = "Failed") => model_params /= NoParams

\* C7 (Unsupported vendor is an error): for an identity whose vendor prefix
\* is not supported, parameter adaptation fails and returns no mapping.
C7_UnsupportedVendor ==
    (hpc /= "Idle" /\ VendorPrefix(RequestModelId) \notin SupportedVendors)
        => /\ hpc \notin {"BuildPrompt", "Truncate", "FillPrompt"}
           /\ model_params = NoParams

\* C8 (Request isolation): the parameters adapted for a request are those
\* of its own identity and temperature over the configuration the module
\* starts with, whatever requests the process served before.
C8_RequestIsolation ==
    (handler = "text" /\ hpc = "BuildPrompt")
        => model_params = get_model_params(RequestModelId,
                                           Override(GeneratorConfigInit, body.model_params))

\* C9 (Orchestrator failure origin): Failed is entered only from Invoking.
C9_FailureOrigin ==
    [][hpc' = "Failed" => Stage(hpc) = "Invoking"]_vars

\* the image blocks of a message
ImageBlocks(msg) == {j \in 1..Len(msg.content) : msg.content[j].type = "image"}

\* the page sequence is empty after truncation to max_pages
NoPages(f, m) == f = None \/ PySliceTo(f.pages, m) = <<>>

\* C10 (No empty multimodal request): create_human_message_with_imgs never
\* returns a message without image blocks; with an empty page sequence it
\* fails with the no-pages error.
C10_NoEmptyMultimodalRequest ==
    /\ mpc = "returned" => ImageBlocks(message) /= {}
    /\ (mpc /= "call" /\ NoPages(file, max_pages)
            /\ (file = None \/ LowerExt(file.ext) \in ImageExts \cup {".pdf"}))
        => (mpc = "raised" /\ message.raised = "ValueError")

\* C11 (Page order and bound): for a file of at least one page and
\* max_pages >= 1 the message holds min(pages, max_pages) image blocks, the
\* i-th encoding the i-th page, then the prompt text as the one last block.
C11_PageOrderAndBound ==
    (mpc /= "call" /\ file /= None /\ LowerExt(file.ext) \in ImageExts \cup {".pdf"}
        /\ Len(file.pages) >= 1 /\ max_pages >= 1)
        => /\ mpc = "returned"
           /\ Len(message.content) = Min(Len(file.pages), max_pages) + 1
           /\ \A j \in 1..Min(Len(file.pages), max_pages) :
                 /\ message.content[j].type = "image"
                 /\ message.content[j].source.data.base64.image = file.pages[j]
           /\ message.content[Len(message.content)] = TextBlock(prompt_text)

\* C11: a PDF of three pages cut to its first two
C11_Witness ==
    /\ mpc = "returned"
    /\ file /= None
    /\ Len(file.pages) = 3
    /\ max_pages = 2
    /\ Len(message.content) = 3

\* the fields that occur in a template text, as entries of input_variables
FieldsIn(t) == {[name |-> t[j].name, idx |-> t[j].idx] : j \in {n \in 1..Len(t) : t[n].kind = "field"}}

\* document, attributes, the two fields of every few shot, and instructions
\* when they are not blank
ExpectedVariables ==
    {Variable("document"), Variable("attributes")}
    \cup {VariableAt("few_shot_input", j) : j \in 0..(num_few_shots - 1)}
    \cup {VariableAt("few_shot_output", j) : j \in 0..(num_few_shots - 1)}
    \cup (IF StripIsTruthy(instructions) THEN {Variable("instructions")} ELSE {})

\* C12 (Declared placeholders): the list load_prompt_template declares is
\* exactly document, attributes, few_shot_input_i and few_shot_output_i for
\* i < num_few_shots, plus the one name instructions iff the instructions
\* are not blank; it equals the set of fields of the template text.
C12_DeclaredPlaceholders ==
    lpc = "returned"
        => /\ {input_variables[j] : j \in 1..Len(input_variables)} = ExpectedVariables
           /\ Len(input_variables) = Cardinality(ExpectedVariables)
           /\ {input_variables[j] : j \in 1..Len(input_variables)} = FieldsIn(prompt)

\* the template text after the header
AfterHeader(t) == SubSeq(t, Len(PROMPT_DEFAULT_HEADER) + 1, Len(t))

\* C13 (Blank instructions leave no trace): for empty or whitespace-only
\* instructions the returned template text holds no instructions marker and
\* no {instructions} field, and no <instructions> block in the tail or in a
\* few-shot block.
C13_BlankInstructionsNoTrace ==
    (lpc = "returned" /\ \A j \in 1..Len(instructions) : instructions[j] \in Whitespace)
        => /\ \A j \in 1..Len(prompt) :
                 prompt[j] \notin {InstructionsMarker, Field("instructions")}
           /\ \A j \in 1..Len(AfterHeader(prompt)) :
                 AfterHeader(prompt)[j] \notin {Lit("<instructions>"), Lit("</instructions>")}

\* C13: whitespace-only instructions and two few-shot blocks
C13_Witness ==
    /\ lpc = "returned"
    /\ instructions = <<"\n", " ">>
    /\ num_few_shots = 2
    /\ Field("instructions") \notin {prompt[j] : j \in 1..Len(prompt)}
    /\ FieldAt("few_shot_output", 1) \in {prompt[j] : j \in 1..Len(prompt)}

\* C14 (Model identity completeness): every identity of ALL_MODEL_SPECS
\* has an entry in MAX_DOC_LENGTH_DIC under that identity and a mapping in
\* __maps__, so that no request with such an identity fails a lookup.
C14_ModelIdentityCompleteness ==
    (hpc /= "Idle" /\ RequestModelId \in ALL_MODEL_SPECS)
        => /\ RequestModelId \in DOMAIN MAX_DOC_LENGTH_DIC
           /\ RequestModelId \in MappedIds
           /\ ~(handler = "image" /\ hpc = "Failed" /\ model_params = NoParams)

\* C15 (Meta ceiling before projection): for a request of vendor prefix
\* meta the adapted parameters carry max_gen_len = 2048, in the text handler
\* and in the multimodal handler.
C15_MetaCeiling ==
    (hpc \in {"BuildPrompt", "Truncate", "FillPrompt"} /\ VendorPrefix(RequestModelId) = "meta")
        => /\ "max_gen_len" \in DOMAIN model_params
           /\ model_params["max_gen_len"] = MetaMaxTokens

\* C16 (Parser tolerance): for a text without braces made of key: value
\* runs separated by blank lines, parse_json_string does not raise and
\* returns a mapping.
C16_ParserTolerance ==
    (ppc \in {"returned", "raised"} /\ text \in KeyValueTexts)
        => (ppc = "returned" /\ result.kind = "dict")

\* C17 (Anthropic parameter set): for an anthropic identity the adapter of
\* each handler returns exactly the keys max_tokens, stop_sequences,
\* temperature, top_p and top_k.
C17_AnthropicParameterSet ==
    (hpc /= "Idle" /\ VendorPrefix(RequestModelId) = "anthropic")
        => /\ hpc \in {"BuildPrompt", "Truncate", "FillPrompt"}
                => DOMAIN model_params
                       = {"max_tokens", "stop_sequences", "temperature", "top_p", "top_k"}
           /\ ~(handler = "image" /\ hpc = "Failed" /\ model_params = NoParams)

NoMultiplierFits ==
    \A j \in 1..NumMultipliers :
        ~Fits(Candidate(document, token_count_total, max_token_model, j),
              cpt, max_token_model, num_token_prompt)

\* the words of the document the j-th candidate keeps
WordsKept(j) ==
    LET doc_words == Split(document)
        cut == CutWords(split_parameter(token_count_total, max_token_model), j)
    IN  Len(PySliceTo(doc_words, mid_point(document) - cut))
            + Len(PySliceFrom(doc_words, mid_point(document) + cut))

\* C19 (Truncation degradation): when no multiplier fits, truncate_document
\* returns the candidate of the last multiplier, and that candidate keeps
\* no more words than any earlier candidate of the sweep.
C19_TruncationDegradation ==
    (tpc = "returned" /\ NoMultiplierFits)
        => /\ truncated_doc = Candidate(document, token_count_total, max_token_model,
                                        NumMultipliers)
           /\ \A j \in 1..NumMultipliers : WordsKept(NumMultipliers) <= WordsKept(j)

C21_SymmetricCut ==
    cuts > 0 =>
        LET doc_words == Split(document)
            cut == CutWords(split_parameter(token_count_total, max_token_model), cuts)
            mid == mid_point(document)
        IN  /\ truncated_doc =
                  Join(SubSeq(doc_words, 1, Max(mid - cut, 0)))
                      \o MARKER
                      \o Join(SubSeq(doc_words, Min(mid + cut, Len(doc_words)) + 1,
                                     Len(doc_words)))
            /\ \A j \in 1..cuts : WordsKept(cuts) <= WordsKept(j)

RECURSIVE TotalRows(_)
TotalRows(d) == IF d = <<>> THEN 0 ELSE Len(d[1].rows) + TotalRows(Tail(d))

HoldingTables(d, row) ==
    {j \in 1..Len(d) : \E h \in 1..Len(d[j].rows) : d[j].rows[h] = row}

\* C22 (No table rows lost): in the tables compile_tables returns, every
\* row of every fragment is in exactly one logical table and the row total
\* of the tables is the row total of the fragments; creating a logical
\* table replaces none, also when a title recurs non-consecutively.
C22_NoRowsLost ==
    cpc = "returned" =>
        /\ \A j \in 1..Len(tables) : \A h \in 1..Len(RowsOf(j)) :
               Cardinality(HoldingTables(all_tables, RowsOf(j)[h])) = 1
        /\ TotalRows(all_tables) = Len(tables) * Len(RowsOf(1))

\* the rule on the logical table last started, read from the result dict
DecisionRule(table, n) ==
    /\ n > 1
    /\ HasKey(all_tables, last_title)
    /\ LET last == Lookup(all_tables, last_title)
       IN  /\ (new_title(table, n) = last.title \/ new_title(table, n) = Placeholder(n))
           /\ Len(table.columns) = Len(last.columns)
           /\ \/ table.columns = last.columns
              \/ table.columns = [j \in 1..Len(table.columns) |-> PosLabel[j]]

\* C23 (Reconciler decision rule): a fragment is appended to the last
\* logical table if and only if its title is that table's title or the
\* placeholder table_N, its column count is that table's, and its columns
\* are that table's or the default positional ones; in every other case,
\* the first fragment included, it starts a new logical table.
C23_DecisionRule ==
    [][ti' = ti + 1 =>
        LET table == tables[ti + 1]
        IN  IF DecisionRule(table, ti + 1)
            THEN /\ last_title' = last_title
                 /\ Lookup(all_tables', last_title).rows
                        = Lookup(all_tables, last_title).rows \o RowsOf(ti + 1)
            ELSE /\ last_title' = new_title(table, ti + 1)
                 /\ Lookup(all_tables', last_title').rows = RowsOf(ti + 1)
                 /\ Lookup(all_tables', last_title').columns = table.columns]_vars

\* a sequence in which one fragment was appended and one started a second table
C23_Witness ==
    /\ cpc = "returned"
    /\ Len(tables) = 3
    /\ Len(all_tables) = 2
    /\ Len(all_tables[1].rows) = 2 * Len(RowsOf(1))
    /\ tables[2].columns = DefaultColumns(2)

\* C24 (Cache hit returns the same document's text): a request that skips
\* extraction returns text that was extracted from its own file name, and
\* a processed key stands for the one file name whose text it holds: two
\* different file names never have the same processed key.
C24_CacheHitSameDocument ==
    /\ (ipc = "returned" /\ skipped) => doc_text.text_of = file_name
    /\ \A o \in objects : \A name \in IngestFileNames :
           ProcessedKey(name) = o.key => o.body.text_of = name

\* C26 (Table toggle): with the table-processing toggle disabled the OCR
\* stage requests layout analysis only and lists no CSV tables on a cache
\* hit; with it enabled, tables are requested.
C26_TableToggle ==
    /\ ~use_table => ("TABLES" \notin features /\ ~listed)
    /\ (use_table /\ features /= {}) => "TABLES" \in features

\* the media type of encoded image bytes
MediaTypeOf(data) == IF data.base64.format = "PNG" THEN "image/png" ELSE "image/jpeg"

\* C25 (Image block media type): every image block of a returned message
\* is tagged with the media type of the bytes it carries: image/jpeg for
\* rasterized PDF pages and .jpg/.jpeg files, image/png for a .png file.
C25_ImageBlockMediaType ==
    mpc = "returned" =>
        \A j \in 1..Len(message.content) :
            message.content[j].type = "image"
                => message.content[j].source.media_type
                       = MediaTypeOf(message.content[j].source.data)

\* C27 (Status polling terminates): once the execution is in a terminal
\* status (SUCCEEDED, FAILED, TIMED_OUT or ABORTED), the polling loop ends.
C27_PollingTerminates ==
    (execution_status \in TerminalStatuses) ~> (qpc \in {"done", "raised"})

\* C30 (One delimiter extraction): for a raw answer the parser accepts, the
\* summary prompt builder and the front end do not fail and select the span
\* the parser selects (newlines aside).
C30_OneDelimiterExtraction ==
    (/\ parser_span /= None
     /\ summary_span /= None
     /\ front_span /= None
     /\ parse_json_string(raw_answer).ok)
        => /\ summary_span.raised = "none"
           /\ front_span.raised = "none"
           /\ summary_span.span = RemoveNewlines(parser_span.span)
           /\ RemoveNewlines(front_span.span) = RemoveNewlines(parser_span.span)

SomeMultiplierFits == ~NoMultiplierFits

\* C28 (First satisfying multiplier): when some multiplier fits,
\* truncate_document returns the candidate of the smallest such multiplier:
\* its estimate is strictly below max_token_model - num_token_prompt, every
\* candidate of a smaller multiplier was at or above it, and its estimate
\* is no larger than the original document's.
C28_FirstSatisfyingMultiplier ==
    (tpc = "returned" /\ SomeMultiplierFits)
        => /\ truncated_doc = Candidate(document, token_count_total, max_token_model, cuts)
           /\ Fits(truncated_doc, cpt, max_token_model, num_token_prompt)
           /\ \A j \in 1..(cuts - 1) :
                  ~Fits(Candidate(document, token_count_total, max_token_model, j),
                        cpt, max_token_model, num_token_prompt)
           /\ token_count_tokenizer(truncated_doc, cpt)
                  <= token_count_tokenizer(document, cpt)

\* the fragment that started the logical table current after n fragments
RECURSIVE Starter(_)
Starter(n) ==
    IF n <= 1 THEN n
    ELSE LET first == Starter(n - 1)
         IN  IF Continues(tables[n], n, new_title(tables[first], first),
                          tables[first].columns)
             THEN first ELSE n

\* C29 (First fragment's headers win): when a fragment is appended, the
\* merged table has the column names of the fragment that started that
\* logical table, and no step changes the column names of a logical table
\* other than by starting one.
C29_FirstHeadersWin ==
    [][ti' = ti + 1 =>
        /\ Starter(ti + 1) /= ti + 1 =>
               /\ Lookup(all_tables', last_title).rows
                      = Lookup(all_tables, last_title).rows \o RowsOf(ti + 1)
               /\ Lookup(all_tables', last_title).columns
                      = tables[Starter(ti + 1)].columns
        /\ \A j \in 1..Len(all_tables) :
               (Starter(ti + 1) = ti + 1
                    => all_tables[j].title /= new_title(tables[ti + 1], ti + 1))
                   => Lookup(all_tables', all_tables[j].title).columns
                          = all_tables[j].columns]_vars

\* two fragments with positional labels were appended to a table that
\* started with named columns
C29_Witness ==
    /\ cpc = "returned"
    /\ Len(tables) = 3
    /\ Len(all_tables) = 1
    /\ tables[1].columns = <<"A", "B">>
    /\ tables[2].columns = DefaultColumns(2)
    /\ tables[3].columns = DefaultColumns(2)
    /\ all_tables[1].columns = <<"A", "B">>
    /\ Len(all_tables[1].rows) = 3 * Len(RowsOf(1))

====
